---- MODULE Spec2Model ----
(***************************************************************************)
(* Event-ticket inventory and booking lifecycle of kerya-backend           *)
(* (kerya/app/services/tickets_service.py and the models and serializers   *)
(* it uses), as a state machine over the rows of the relational store.     *)
(*                                                                         *)
(* The store is PostgreSQL at READ COMMITTED (kerya/settings/base.py): a   *)
(* transaction's writes become visible when it commits, a row lock taken   *)
(* by SELECT ... FOR UPDATE is held until the transaction ends, and a      *)
(* plain SELECT takes no lock.  A service call is therefore a short        *)
(* sequence of steps: its unlocked reads, its row-lock acquisitions, and   *)
(* the step in which its writes are applied and committed.                 *)
(*                                                                         *)
(* The service compares against EventBooking.CONFIRMED / .CANCELLED and    *)
(* EventTicket.USED / .CANCELLED.  The class bodies of EventBooking and    *)
(* EventTicket in models/ticket.py define no such attributes, and the      *)
(* package file that exports the model names is not among the sources.     *)
(* The names are read here as the members of EventBookingStatus and        *)
(* EventTicketStatus, the values the status columns hold.                  *)
(***************************************************************************)
EXTENDS Integers, Sequences, FiniteSets, TLC

\* ---------------------------------------------------------------- bounds
MaxQty == 2
MaxTypes == 2
MaxBookings == 1
MaxLines == 2
NProc == 2
MaxClock == 4
MaxDay == 3
MaxLodgings == 2
MaxPrice == 3
MaxRepeat == 2

\* ------------------------------------------------------- program constants
\* len(str(uuid.uuid4())): the textual form of a primary key
UUIDLen == 36
\* EventBooking.payment_reference = CharField(max_length=100)
PaymentReferenceMaxLen == 100

\* EventBookingStatus
PENDING == "pending"
CONFIRMED == "confirmed"
CANCELLED == "cancelled"

\* EventTicketStatus
VALID == "valid"
USED == "used"
TICKET_CANCELLED == "cancelled"

Procs == 1..NProc
TypeIds == 1..MaxTypes
NoValue == -1

\* Listing rows: the listing table is not written by the ticket service.
\* Listings 1 and 2 are events, listing 3 is a house, listing 4 a hotel.
Listings == {1, 2, 3, 4}
ListingType(l) == IF l = 3 THEN "house" ELSE IF l = 4 THEN "hotel" ELSE "event"

\* ----------------------------------------------------------------- strings
\* A string is a sequence of tokens.  A token is one character, except that
\* the 36 characters of a UUID are one token (they contain neither ':' nor
\* ',' nor '|', so no parsing below ever looks inside one).
UuidStr == <<"uuid-1", "uuid-2", "uuid-3", "uuid-4">>
UuidTokens == {UuidStr[i] : i \in 1..Len(UuidStr)}
DigitChars == <<"0", "1", "2", "3", "4", "5", "6", "7", "8", "9">>

\* str(uuid)
StrOfId(id) == <<UuidStr[id]>>

\* the primary key a string denotes, 0 when it is not the text of a UUID
IdOfStr(s) ==
    IF Len(s) = 1 /\ s[1] \in UuidTokens
    THEN CHOOSE i \in 1..Len(UuidStr) : UuidStr[i] = s[1]
    ELSE 0

\* len(s), in characters
StrLen(s) ==
    LET RECURSIVE Count(_)
        Count(i) == IF i = 0 THEN 0
                    ELSE Count(i - 1) + (IF s[i] \in UuidTokens THEN UUIDLen ELSE 1)
    IN Count(Len(s))

\* str(n) for n >= 0
RECURSIVE StrOfInt(_)
StrOfInt(n) ==
    IF n < 10 THEN <<DigitChars[n + 1]>>
    ELSE StrOfInt(n \div 10) \o <<DigitChars[(n % 10) + 1]>>

IsDigit(c) == \E i \in 1..10 : DigitChars[i] = c
DigitVal(c) == (CHOOSE i \in 1..10 : DigitChars[i] = c) - 1

\* int(s) succeeds on a non-empty string of digits
IsIntStr(s) == Len(s) > 0 /\ \A i \in 1..Len(s) : IsDigit(s[i])

\* int(s)
RECURSIVE IntOfStr(_)
IntOfStr(s) ==
    IF Len(s) = 0 THEN 0
    ELSE 10 * IntOfStr(SubSeq(s, 1, Len(s) - 1)) + DigitVal(s[Len(s)])

LinesPrefix == <<"L", "I", "N", "E", "S", "|">>

\* s.startswith(prefix)
StartsWith(s, prefix) ==
    Len(s) >= Len(prefix) /\ SubSeq(s, 1, Len(prefix)) = prefix

\* s.split(sep): the pieces between the occurrences of the character sep
RECURSIVE Split(_, _)
Split(s, sep) ==
    IF \A i \in 1..Len(s) : s[i] # sep THEN <<s>>
    ELSE LET k == CHOOSE i \in 1..Len(s) :
                      s[i] = sep /\ \A j \in 1..(i - 1) : s[j] # sep
         IN <<SubSeq(s, 1, k - 1)>> \o Split(SubSeq(s, k + 1, Len(s)), sep)

\* sep.join(parts)
RECURSIVE Join(_, _)
Join(parts, sep) ==
    IF Len(parts) = 0 THEN <<>>
    ELSE IF Len(parts) = 1 THEN parts[1]
    ELSE parts[1] \o <<sep>> \o Join(Tail(parts), sep)


\* ------------------------------------------------------ booking line store
\* A request line is [ticket_type |-> id, quantity |-> n].

\* f"{line['ticket_type']}:{line['quantity']}"
LinePair(line) == StrOfId(line.ticket_type) \o <<":">> \o StrOfInt(line.quantity)

\* "LINES|" + ",".join(line_pairs)
FormatLines(lines) ==
    LinesPrefix \o Join([i \in 1..Len(lines) |-> LinePair(lines[i])], ",")

\* booking.payment_reference[len("LINES|"):]
Payload(ref) == SubSeq(ref, Len(LinesPrefix) + 1, Len(ref))

\* not booking.payment_reference or not booking.payment_reference.startswith("LINES|")
LinesMissing(ref) == Len(ref) = 0 \/ ~StartsWith(ref, LinesPrefix)

\* the non-empty parts of payload.split(",")
Parts(payload) ==
    LET all == Split(payload, ",")
    IN SelectSeq(all, LAMBDA part : Len(part) > 0)

\* tid, qty = part.split(":") and int(qty) both succeed for every part
ParseOk(payload) ==
    \A i \in 1..Len(Parts(payload)) :
        LET kv == Split(Parts(payload)[i], ":")
        IN Len(kv) = 2 /\ IsIntStr(kv[2])

\* the parsed lines, in the order of the string; tid stays a string
ParseLines(payload) ==
    LET parts == Parts(payload)
    IN [i \in 1..Len(parts) |->
           LET kv == Split(parts[i], ":")
           IN [ticket_type |-> kv[1], quantity |-> IntOfStr(kv[2])]]

\* ------------------------------------------------------------------- state
VARIABLES
    ticket_types,   \* EventTicketType rows; the row of primary key k is ticket_types[k]
    bookings,       \* EventBooking rows, in order of creation
    tickets,        \* EventTicket rows, in order of creation
    lodgings,       \* Booking rows (house and hotel bookings), in order of creation
    locks,          \* locks[k]: the process whose transaction holds the row lock of ticket type k, or 0
    pc,             \* pc[p]: where the service call of process p stands
    frame,          \* frame[p]: the local variables of the call of process p
    response,       \* the call that ended in the last step and how, if one did
    clock           \* timezone.now()

vars == <<ticket_types, bookings, tickets, lodgings, locks, pc, frame, response, clock>>
db == <<ticket_types, bookings, tickets, lodgings>>
ticket_db == <<ticket_types, bookings, tickets>>

NoRow == [event |-> 0, price |-> 0, total_quantity |-> 0, available_quantity |-> 0,
          max_per_user |-> 0, is_active |-> FALSE]

Frame0 == [booking |-> 0, event |-> 0, lines |-> <<>>, selected |-> <<>>, todo |-> <<>>,
           tt_map |-> <<>>,
           payment_method |-> <<>>, payment_reference |-> <<>>,
           row |-> NoRow, computed |-> 0,
           op |-> "", user |-> 0, request |-> <<>>, instance |-> <<>>,
           update_fields |-> {}, code |-> <<>>, ticket |-> 0, began |-> 0,
           total_before |-> 0, avail_before |-> 0]

NoResponse == [proc |-> 0, op |-> "", booking |-> 0, outcome |-> ""]

Init ==
    /\ ticket_types = <<>>
    /\ bookings = <<>>
    /\ tickets = <<>>
    /\ lodgings = <<>>
    /\ locks = [k \in TypeIds |-> 0]
    /\ pc = [p \in Procs |-> "idle"]
    /\ frame = [p \in Procs |-> Frame0]
    /\ response = NoResponse
    /\ clock = 0

Quiescent == \A p \in Procs : pc[p] = "idle"

TypeExists(k) == k \in 1..Len(ticket_types)

\* EventTicketType.is_available
is_available(tt) == tt.is_active /\ tt.available_quantity > 0

\* EventTicketType.sold_quantity
sold_quantity(tt) == tt.total_quantity - tt.available_quantity

\* the call of p, about booking b (0 when about none), ends: its frame is
\* dropped and the row locks of its transaction are released
ReturnFor(p, op, b, outcome) ==
    /\ pc' = [pc EXCEPT ![p] = "idle"]
    /\ frame' = [frame EXCEPT ![p] = Frame0]
    /\ response' = [proc |-> p, op |-> op, booking |-> b, outcome |-> outcome]
    /\ locks' = [k \in TypeIds |-> IF locks[k] = p THEN 0 ELSE locks[k]]

Return(p, op, outcome) == ReturnFor(p, op, frame[p].booking, outcome)

\* ------------------------------------------------------ create_ticket_type
\* EventTicketTypeCreateUpdateSerializer.create: available_quantity defaults
\* to total_quantity when the payload does not carry it
CreateRow(event, price, total, available, max_per_user, is_active) ==
    [event |-> event, price |-> price, total_quantity |-> total,
     available_quantity |-> IF available = NoValue THEN total ELSE available,
     max_per_user |-> max_per_user, is_active |-> is_active]

\* TicketsService.create_ticket_type: one INSERT
create_ticket_type(p, event, price, total, available, max_per_user, is_active) ==
    /\ pc[p] = "idle"
    /\ Len(ticket_types) < MaxTypes
    /\ ticket_types' = Append(ticket_types,
           CreateRow(event, price, total, available, max_per_user, is_active))
    /\ response' = [proc |-> p, op |-> "create_ticket_type", booking |-> 0, outcome |-> "ok"]
    /\ UNCHANGED <<bookings, tickets, lodgings, locks, pc, frame, clock>>


\* ---------------------------------------------------------- create_booking
\* the ids a request names: tt_ids = [l["ticket_type"] for l in lines]
tt_ids(lines) == [i \in 1..Len(lines) |-> lines[i].ticket_type]

\* the rows EventTicketType.objects.filter(id__in=tt_ids) selects
SelectedTypes(lines) == {k \in 1..Len(ticket_types) : \E i \in 1..Len(lines) : lines[i].ticket_type = k}

\* the orders in which a statement may visit (and lock) a set of rows
Orders(S) == {o \in [1..Cardinality(S) -> S] : \A i, j \in 1..Cardinality(S) : o[i] = o[j] => i = j}

\* Meta.ordering = ['price'] orders every query on ticket types that names
\* no order of its own, the locking select of create_booking included: the
\* rows are visited by ascending price, rows of equal price in any order
PriceOrders(S) ==
    {o \in Orders(S) : \A i, j \in 1..Cardinality(S) :
                          i < j => ticket_types[o[i]].price <= ticket_types[o[j]].price}

\* EventBookingCreateSerializer.is_valid: the listing is an event
\* (validate_event), there is at least one line (validate), and every
\* quantity is at least 1 (BookingTicketLineSerializer)
SerializerValid(event, lines) ==
    /\ ListingType(event) = "event"
    /\ Len(lines) > 0
    /\ \A i \in 1..Len(lines) : lines[i].quantity >= 1

\* LineError without the per-user limit
LineError_no_limit(line, event, tt) ==
    IF tt.event # event THEN "wrong_event"
    ELSE IF ~is_available(tt) THEN "not_available"
    ELSE IF line.quantity > tt.available_quantity THEN "exceeds_available"
    ELSE ""

\* the check of one line against its locked row (the body of the for loop),
\* "" when the line passes
LineError(line, event, tt) ==
    IF tt.event # event THEN "wrong_event"
    ELSE IF ~is_available(tt) THEN "not_available"
    ELSE IF line.quantity > tt.available_quantity THEN "exceeds_available"
    ELSE IF line.quantity > tt.max_per_user THEN "exceeds_max_per_user"
    ELSE ""

\* the first error the validation loop raises over the lines, "" when none
RECURSIVE FirstLineError(_, _, _)
FirstLineError(lines, event, types) ==
    IF Len(lines) = 0 THEN ""
    ELSE LET e == LineError(Head(lines), event, types[Head(lines).ticket_type])
         IN IF e # "" THEN e ELSE FirstLineError(Tail(lines), event, types)

\* total_tickets += qty
RECURSIVE TotalTickets(_)
TotalTickets(lines) ==
    IF Len(lines) = 0 THEN 0 ELSE Head(lines).quantity + TotalTickets(Tail(lines))

\* total_amount += float(tt.price) * qty
RECURSIVE TotalAmount(_, _)
TotalAmount(lines, types) ==
    IF Len(lines) = 0 THEN 0
    ELSE types[Head(lines).ticket_type].price * Head(lines).quantity
         + TotalAmount(Tail(lines), types)

\* ReserveLines that takes one unit per line, whatever its quantity
RECURSIVE ReserveLines_one_each(_, _)
ReserveLines_one_each(lines, types) ==
    IF Len(lines) = 0 THEN types
    ELSE LET k == Head(lines).ticket_type
         IN ReserveLines_one_each(Tail(lines),
                [types EXCEPT ![k].available_quantity = @ - 1])

\* tt.available_quantity = F('available_quantity') - qty, for every line
RECURSIVE ReserveLines(_, _)
ReserveLines(lines, types) ==
    IF Len(lines) = 0 THEN types
    ELSE LET k == Head(lines).ticket_type
         IN ReserveLines(Tail(lines),
                [types EXCEPT ![k].available_quantity = @ - Head(lines).quantity])

\* PositiveIntegerField: CHECK (available_quantity >= 0)
CheckViolated(types) == \E k \in 1..Len(types) : types[k].available_quantity < 0

\* the row EventBooking.objects.create inserts, then payment_reference is
\* saved.  `lines` is no column of the row: it keeps the request beside the
\* row, to state what the booking reserved.  Prices are whole numbers
\* (the smallest unit of the currency).
NewBooking(event, lines, types, payment_method) ==
    [event |-> event, lines |-> lines,
     total_tickets |-> TotalTickets(lines),
     total_amount |-> TotalAmount(lines, types),
     status |-> PENDING,
     payment_method |-> payment_method,
     payment_reference |-> FormatLines(lines),
     confirmed_at |-> 0, cancelled_at |-> 0]

\* create_booking up to the SELECT ... FOR UPDATE: the serializer runs, the
\* transaction starts, and the statement selects the rows of the request
\* that exist (tts) and is about to lock them in the order `order`
cb_begin(p, event, lines, payment_method, order) ==
    /\ pc[p] = "idle"
    /\ IF ~SerializerValid(event, lines)
       THEN /\ Return(p, "create_booking", "invalid")
            /\ UNCHANGED <<db, clock>>
       ELSE /\ pc' = [pc EXCEPT ![p] = IF Len(order) = 0 THEN "cb_run" ELSE "cb_lock"]
            /\ frame' = [frame EXCEPT ![p] = [Frame0 EXCEPT !.event = event, !.lines = lines,
                             !.payment_method = payment_method,
                             !.selected = order, !.todo = order]]
            /\ response' = NoResponse
            /\ UNCHANGED <<db, locks, clock>>

\* cb_lock without the wait: a SELECT that takes no row lock
cb_lock_unlocked(p) ==
    /\ pc[p] = "cb_lock"
    /\ locks' = locks
    /\ frame' = [frame EXCEPT ![p].todo = Tail(@),
                              ![p].tt_map = (Head(frame[p].todo) :> ticket_types[Head(frame[p].todo)]) @@ @]
    /\ pc' = [pc EXCEPT ![p] = IF Len(frame[p].todo) = 1 THEN "cb_run" ELSE "cb_lock"]
    /\ response' = NoResponse
    /\ UNCHANGED <<db, clock>>

\* select_for_update(): the next selected row is locked once no other
\* transaction holds it, and is read as it then stands (tt_map)
cb_lock(p) ==
    /\ pc[p] = "cb_lock"
    /\ locks[Head(frame[p].todo)] = 0
    /\ locks' = [locks EXCEPT ![Head(frame[p].todo)] = p]
    /\ frame' = [frame EXCEPT ![p].todo = Tail(@),
                              ![p].tt_map = (Head(frame[p].todo) :> ticket_types[Head(frame[p].todo)]) @@ @]
    /\ pc' = [pc EXCEPT ![p] = IF Len(frame[p].todo) = 1 THEN "cb_run" ELSE "cb_lock"]
    /\ response' = NoResponse
    /\ UNCHANGED <<db, clock>>

\* create_booking without the comparison of len(tts) with len(tt_ids)
CreateError_uncounted(event, lines, selected, tt_map, types) ==
    IF \E i \in 1..Len(lines) : lines[i].ticket_type \notin DOMAIN tt_map THEN "not_found"
    ELSE IF FirstLineError(lines, event, tt_map) # "" THEN FirstLineError(lines, event, tt_map)
    ELSE IF CheckViolated(ReserveLines(lines, types)) THEN "integrity_error"
    ELSE IF StrLen(FormatLines(lines)) > PaymentReferenceMaxLen THEN "data_error"
    ELSE ""

\* the error create_booking raises after the rows are locked, "" when it
\* goes through: len(tts) != len(tt_ids), then the validation loop over the
\* rows as read (tt_map), then the constraints of the store on what the
\* F() updates wrote to the rows as they stand (types)
CreateError(event, lines, selected, tt_map, types) ==
    IF Len(selected) # Len(lines) THEN "not_found"
    ELSE IF FirstLineError(lines, event, tt_map) # "" THEN FirstLineError(lines, event, tt_map)
    ELSE IF CheckViolated(ReserveLines(lines, types)) THEN "integrity_error"
    ELSE IF StrLen(FormatLines(lines)) > PaymentReferenceMaxLen THEN "data_error"
    ELSE ""

\* @transaction.atomic: what a transaction leaves in the store, given the
\* rows as they were when it began and as its statements wrote them
Atomic(error, before, written) == IF error = "" THEN written ELSE before

\* create_booking from the validation loop to the commit
cb_run(p) ==
    /\ pc[p] = "cb_run"
    /\ LET f == frame[p]
           error == CreateError(f.event, f.lines, f.selected, f.tt_map, ticket_types)
       IN /\ ticket_types' = Atomic(error, ticket_types, ReserveLines(f.lines, ticket_types))
          /\ bookings' = Atomic(error, bookings,
                 Append(bookings, NewBooking(f.event, f.lines, f.tt_map, f.payment_method)))
          /\ Return(p, "create_booking", IF error = "" THEN "ok" ELSE error)
    /\ UNCHANGED <<tickets, lodgings, clock>>


\* --------------------------------------------------------- confirm_booking
\* the tickets the creation loop inserts: for each line, quantity tickets of
\* its type, each VALID (the default of EventTicket.status)
RECURSIVE NewTickets(_, _)
NewTickets(b, lines) ==
    IF Len(lines) = 0 THEN <<>>
    ELSE [i \in 1..Head(lines).quantity |->
             [booking |-> b, ticket_type |-> IdOfStr(Head(lines).ticket_type),
              status |-> VALID, used_at |-> 0]]
         \o NewTickets(b, Tail(lines))

\* the lines name rows get_object_or_404(EventTicketType, pk=...) finds
TypesFound(lines) == \A i \in 1..Len(lines) : TypeExists(IdOfStr(lines[i].ticket_type))

\* payment_method or booking.payment_method
OrElse(given, kept) == IF Len(given) = 0 THEN kept ELSE given

\* ConfirmReturn without the early return on a CONFIRMED booking
ConfirmReturn_no_return(booking) ==
    IF booking.status = CANCELLED THEN "cancelled"
    ELSE IF LinesMissing(booking.payment_reference) THEN "no_lines"
    ELSE IF ~ParseOk(Payload(booking.payment_reference)) THEN "value_error"
    ELSE IF ~TypesFound(ParseLines(Payload(booking.payment_reference))) THEN "not_found"
    ELSE ""

\* how confirm_booking ends on the booking row it read before it writes
\* anything, "" when it goes on to create the tickets
ConfirmReturn(booking) ==
    IF booking.status = CONFIRMED THEN "returned_confirmed"
    ELSE IF booking.status = CANCELLED THEN "cancelled"
    ELSE IF LinesMissing(booking.payment_reference) THEN "no_lines"
    ELSE IF ~ParseOk(Payload(booking.payment_reference)) THEN "value_error"
    ELSE IF ~TypesFound(ParseLines(Payload(booking.payment_reference))) THEN "not_found"
    ELSE ""

\* confirm_booking up to the end of its reads: get_booking_by_id takes no
\* lock, so the row may change before the writes below are applied
cf_get(p, b, payment_method, payment_reference) ==
    /\ pc[p] = "idle"
    /\ IF b > Len(bookings)
       THEN /\ ReturnFor(p, "confirm_booking", b, "not_found")
            /\ UNCHANGED <<db, clock>>
       ELSE IF ConfirmReturn(bookings[b]) # ""
       THEN /\ ReturnFor(p, "confirm_booking", b, ConfirmReturn(bookings[b]))
            /\ UNCHANGED <<db, clock>>
       ELSE /\ clock + Cardinality({q \in Procs : pc[q] \in {"cf_write", "cn_lock", "cn_write"}}) < MaxClock
            /\ pc' = [pc EXCEPT ![p] = "cf_write"]
            /\ frame' = [frame EXCEPT ![p] = [Frame0 EXCEPT
                   !.booking = b,
                   !.lines = ParseLines(Payload(bookings[b].payment_reference)),
                   !.payment_method = OrElse(payment_method, bookings[b].payment_method),
                   !.payment_reference = OrElse(payment_reference, bookings[b].payment_reference)]]
            /\ response' = NoResponse
            /\ UNCHANGED <<db, locks, clock>>

\* confirm_booking from the ticket creation loop to the commit: the tickets
\* are inserted and four columns of the booking row are overwritten
cf_write(p) ==
    /\ pc[p] = "cf_write"
    /\ LET f == frame[p]
       IN /\ tickets' = tickets \o NewTickets(f.booking, f.lines)
          /\ bookings' = [bookings EXCEPT ![f.booking] = [@ EXCEPT
                 !.status = CONFIRMED,
                 !.confirmed_at = clock + 1,
                 !.payment_method = f.payment_method,
                 !.payment_reference = f.payment_reference]]
    /\ clock' = clock + 1
    /\ Return(p, "confirm_booking", "ok")
    /\ UNCHANGED <<ticket_types, lodgings>>

\* ---------------------------------------------------------- cancel_booking
\* counts[tid] = counts.get(tid, 0) + qty over a list of (tid, qty), as the
\* list of the dict's items in insertion order
RECURSIVE Counts(_)
Counts(lines) ==
    IF Len(lines) = 0 THEN <<>>
    ELSE LET rest == Counts(SubSeq(lines, 1, Len(lines) - 1))
             last == lines[Len(lines)]
         IN IF \E i \in 1..Len(rest) : rest[i].ticket_type = last.ticket_type
            THEN [i \in 1..Len(rest) |->
                     IF rest[i].ticket_type = last.ticket_type
                     THEN [rest[i] EXCEPT !.quantity = @ + last.quantity]
                     ELSE rest[i]]
            ELSE Append(rest, last)

\* one (str(t.ticket_type_id), 1) per ticket of the booking: booking.tickets.all()
TicketLines(b) ==
    LET mine == SelectSeq(tickets, LAMBDA t : t.booking = b)
    IN [i \in 1..Len(mine) |-> [ticket_type |-> StrOfId(mine[i].ticket_type), quantity |-> 1]]

\* the counts cancel_booking restores: from the tickets when the line store
\* is gone, from the line store otherwise
CancelCounts(b) ==
    IF LinesMissing(bookings[b].payment_reference)
    THEN Counts(TicketLines(b))
    ELSE Counts(ParseLines(Payload(bookings[b].payment_reference)))

\* CancelReturn without the early return on a CANCELLED booking
CancelReturn_no_return(booking) ==
    IF ~LinesMissing(booking.payment_reference)
       /\ ~ParseOk(Payload(booking.payment_reference)) THEN "value_error"
    ELSE ""

\* how cancel_booking ends on the booking row it read before it locks
\* anything, "" when it goes on to restore the quantities
CancelReturn(booking) ==
    IF booking.status = CANCELLED THEN "returned_cancelled"
    ELSE IF ~LinesMissing(booking.payment_reference)
            /\ ~ParseOk(Payload(booking.payment_reference)) THEN "value_error"
    ELSE ""

\* cancel_booking up to the end of its unlocked reads (the booking row and
\* its prefetched tickets)
cn_get(p, b) ==
    /\ pc[p] = "idle"
    /\ IF b > Len(bookings)
       THEN /\ ReturnFor(p, "cancel_booking", b, "not_found")
            /\ UNCHANGED <<db, clock>>
       ELSE IF CancelReturn(bookings[b]) # ""
       THEN /\ ReturnFor(p, "cancel_booking", b, CancelReturn(bookings[b]))
            /\ UNCHANGED <<db, clock>>
       ELSE /\ clock + Cardinality({q \in Procs : pc[q] \in {"cf_write", "cn_lock", "cn_write"}}) < MaxClock
            /\ pc' = [pc EXCEPT ![p] = IF Len(CancelCounts(b)) = 0 THEN "cn_write" ELSE "cn_lock"]
            /\ frame' = [frame EXCEPT ![p] = [Frame0 EXCEPT
                   !.booking = b,
                   !.lines = CancelCounts(b),
                   !.todo = [i \in 1..Len(CancelCounts(b)) |-> IdOfStr(CancelCounts(b)[i].ticket_type)]]]
            /\ response' = NoResponse
            /\ UNCHANGED <<db, locks, clock>>

\* cn_lock outside a transaction: the quantity the loop restored before the
\* tid that names no row stays written
cn_lock_autocommit(p) ==
    /\ pc[p] = "cn_lock"
    /\ LET k == Head(frame[p].todo)
           done == Len(frame[p].lines) - Len(frame[p].todo)
       IN IF ~TypeExists(k)
          THEN /\ Return(p, "cancel_booking", "does_not_exist")
               /\ ticket_types' =
                     IF done = 0 THEN ticket_types
                     ELSE [ticket_types EXCEPT
                              ![IdOfStr(frame[p].lines[1].ticket_type)].available_quantity
                                  = @ + frame[p].lines[1].quantity]
               /\ UNCHANGED <<bookings, tickets, lodgings>>
          ELSE /\ locks[k] = 0
               /\ locks' = [locks EXCEPT ![k] = p]
               /\ frame' = [frame EXCEPT ![p].todo = Tail(@)]
               /\ pc' = [pc EXCEPT ![p] = IF Len(frame[p].todo) = 1 THEN "cn_write" ELSE "cn_lock"]
               /\ response' = NoResponse
               /\ UNCHANGED db
    /\ UNCHANGED clock

\* EventTicketType.objects.select_for_update().get(pk=tid): the next row of
\* the loop is locked once no other transaction holds it; a tid that names
\* no row raises DoesNotExist and the transaction is rolled back
cn_lock(p) ==
    /\ pc[p] = "cn_lock"
    /\ LET k == Head(frame[p].todo)
       IN IF ~TypeExists(k)
          THEN Return(p, "cancel_booking", "does_not_exist")
          ELSE /\ locks[k] = 0
               /\ locks' = [locks EXCEPT ![k] = p]
               /\ frame' = [frame EXCEPT ![p].todo = Tail(@)]
               /\ pc' = [pc EXCEPT ![p] = IF Len(frame[p].todo) = 1 THEN "cn_write" ELSE "cn_lock"]
               /\ response' = NoResponse
    /\ UNCHANGED <<db, clock>>

\* tt.available_quantity = F('available_quantity') + qty, for every count
RECURSIVE ReleaseCounts(_, _)
ReleaseCounts(counts, types) ==
    IF Len(counts) = 0 THEN types
    ELSE LET k == IdOfStr(Head(counts).ticket_type)
         IN ReleaseCounts(Tail(counts),
                [types EXCEPT ![k].available_quantity = @ + Head(counts).quantity])

\* booking.tickets.update(status=EventTicket.CANCELLED)
CancelTickets(b, tks) ==
    [i \in 1..Len(tks) |->
        IF tks[i].booking = b THEN [tks[i] EXCEPT !.status = TICKET_CANCELLED] ELSE tks[i]]

\* cn_write that puts the booking back to PENDING instead of CANCELLED
cn_write_pending(p) ==
    /\ pc[p] = "cn_write"
    /\ LET f == frame[p]
       IN /\ ticket_types' = ReleaseCounts(f.lines, ticket_types)
          /\ tickets' = CancelTickets(f.booking, tickets)
          /\ bookings' = [bookings EXCEPT ![f.booking] = [@ EXCEPT
                 !.status = PENDING,
                 !.cancelled_at = clock + 1]]
    /\ clock' = clock + 1
    /\ Return(p, "cancel_booking", "ok")
    /\ UNCHANGED lodgings

\* cancel_booking from the restore loop to the commit
cn_write(p) ==
    /\ pc[p] = "cn_write"
    /\ LET f == frame[p]
       IN /\ ticket_types' = ReleaseCounts(f.lines, ticket_types)
          /\ tickets' = CancelTickets(f.booking, tickets)
          /\ bookings' = [bookings EXCEPT ![f.booking] = [@ EXCEPT
                 !.status = CANCELLED,
                 !.cancelled_at = clock + 1]]
    /\ clock' = clock + 1
    /\ Return(p, "cancel_booking", "ok")
    /\ UNCHANGED lodgings


\* -------------------------------------------------------- use_ticket_by_qr
\* EventTicket.save gives every ticket a ticket_number ("TKT-...") and a
\* qr_code (32 hex digits) of its own; the ticket row of index i carries
\* the two texts below.  No ticket_number is a qr_code.
TicketNumber(i) == <<"TKT", i>>
QrCode(i) == <<"qr", i>>

\* the rows .get(Q(qr_code=code) | Q(ticket_number=code)) matches
Matching(code) == {i \in 1..Len(tickets) : QrCode(i) = code \/ TicketNumber(i) = code}

\* EventTicket.can_be_used
can_be_used(t) == t.status = VALID /\ bookings[t.booking].status = CONFIRMED

\* the error use_ticket_by_qr raises on the ticket it locked, "" when the
\* ticket is to be marked used: the can_be_used test comes first
UseError(t) ==
    IF ~can_be_used(t) THEN "not_usable"
    ELSE IF t.status = USED THEN "already_used"
    ELSE ""

\* use_ticket_by_qr, one transaction: SELECT ... FOR UPDATE locks the ticket
\* row and the booking and ticket type rows joined by select_related (it
\* waits while another transaction holds the ticket type row), and the
\* locks are held to the commit; no other call keeps a lock on a ticket or
\* booking row between two of its statements, so the call is one step
use_ticket_by_qr(p, code) ==
    /\ pc[p] = "idle"
    /\ IF Matching(code) = {}
       THEN /\ response' = [proc |-> p, op |-> "use_ticket_by_qr", booking |-> 0,
                            code |-> code, outcome |-> "not_found"]
            /\ UNCHANGED <<db, clock>>
       ELSE LET i == CHOOSE j \in Matching(code) : TRUE
            IN /\ locks[tickets[i].ticket_type] = 0
               /\ response' = [proc |-> p, op |-> "use_ticket_by_qr",
                               booking |-> tickets[i].booking, code |-> code,
                               outcome |-> IF UseError(tickets[i]) = "" THEN "ok"
                                           ELSE UseError(tickets[i])]
               /\ IF UseError(tickets[i]) = ""
                  THEN /\ clock < MaxClock
                       /\ tickets' = [tickets EXCEPT ![i] =
                              [@ EXCEPT !.status = USED, !.used_at = clock + 1]]
                       /\ clock' = clock + 1
                       /\ UNCHANGED <<ticket_types, bookings, lodgings>>
                  ELSE UNCHANGED <<db, clock>>
    /\ UNCHANGED <<locks, pc, frame>>

\* use_ticket_by_qr statement by statement, for calls that overlap.  The call
\* is entered with the scanned code; began is the time of the call.
use_begin(p, code) ==
    /\ pc[p] = "idle"
    /\ pc' = [pc EXCEPT ![p] = "use_get"]
    /\ frame' = [frame EXCEPT ![p].code = code, ![p].began = clock]
    /\ response' = NoResponse
    /\ UNCHANGED <<db, locks, clock>>

\* the response of a use_ticket_by_qr call, with the scanned code and the
\* time the call began
UseReturn(p, b, outcome) ==
    /\ pc' = [pc EXCEPT ![p] = "idle"]
    /\ frame' = [frame EXCEPT ![p] = Frame0]
    /\ response' = [proc |-> p, op |-> "use_ticket_by_qr", booking |-> b,
                    code |-> frame[p].code, began |-> frame[p].began, outcome |-> outcome]
    /\ locks' = [k \in TypeIds |-> IF locks[k] = p THEN 0 ELSE locks[k]]

\* the ticket row lock of SELECT ... FOR UPDATE is held from the select to
\* the end of the transaction
HoldsTicket(q, i) == pc[q] = "use_save" /\ frame[q].ticket = i

\* the select without FOR UPDATE: the row is read as committed and no lock
\* is waited for or taken
use_get_unlocked(p) ==
    /\ pc[p] = "use_get"
    /\ IF Matching(frame[p].code) = {}
       THEN UseReturn(p, 0, "not_found")
       ELSE LET i == CHOOSE j \in Matching(frame[p].code) : TRUE
            IN /\ pc' = [pc EXCEPT ![p] = "use_save"]
               /\ frame' = [frame EXCEPT ![p].ticket = i,
                                ![p].instance = [ticket |-> tickets[i],
                                                 booking |-> bookings[tickets[i].booking]]]
               /\ response' = NoResponse
               /\ UNCHANGED locks
    /\ UNCHANGED <<db, clock>>

\* EventTicket.objects.select_for_update().select_related("booking",
\* "ticket_type").get(Q(qr_code=...) | Q(ticket_number=...)): NotFound when
\* no row matches; otherwise the call waits until no other transaction
\* holds the ticket row or the joined ticket type row, locks them and reads
\* the ticket with its booking as last committed
use_get(p) ==
    /\ pc[p] = "use_get"
    /\ IF Matching(frame[p].code) = {}
       THEN UseReturn(p, 0, "not_found")
       ELSE LET i == CHOOSE j \in Matching(frame[p].code) : TRUE
            IN /\ \A q \in Procs \ {p} : ~HoldsTicket(q, i)
               /\ locks[tickets[i].ticket_type] = 0
               /\ locks' = [locks EXCEPT ![tickets[i].ticket_type] = p]
               /\ pc' = [pc EXCEPT ![p] = "use_save"]
               /\ frame' = [frame EXCEPT ![p].ticket = i,
                                ![p].instance = [ticket |-> tickets[i],
                                                 booking |-> bookings[tickets[i].booking]]]
               /\ response' = NoResponse
    /\ UNCHANGED <<db, clock>>

\* the two tests of use_ticket_by_qr on the loaded ticket and its loaded
\* booking, can_be_used first
LoadedError(instance) ==
    IF ~(instance.ticket.status = VALID /\ instance.booking.status = CONFIRMED)
    THEN "not_usable"
    ELSE IF instance.ticket.status = USED THEN "already_used"
    ELSE ""

\* the tests, ticket.save(update_fields=["status", "used_at"]) and the commit
use_save(p) ==
    /\ pc[p] = "use_save"
    /\ LET i == frame[p].ticket
           error == LoadedError(frame[p].instance)
       IN /\ UseReturn(p, tickets[i].booking, IF error = "" THEN "ok" ELSE error)
          /\ IF error = ""
             THEN /\ clock < MaxClock
                  /\ tickets' = [tickets EXCEPT ![i] =
                         [@ EXCEPT !.status = USED, !.used_at = clock + 1]]
                  /\ clock' = clock + 1
                  /\ UNCHANGED <<ticket_types, bookings, lodgings>>
             ELSE UNCHANGED <<db, clock>>

\* ------------------------------------------------------ update_ticket_type
\* setattr(instance, attr, value) for every field of the partial payload
ApplyPayload(row, payload) ==
    [f \in DOMAIN row |-> IF f \in DOMAIN payload THEN payload[f] ELSE row[f]]

Max(a, b) == IF a >= b THEN a ELSE b
Min(a, b) == IF a <= b THEN a ELSE b

\* update without the reclamp: available_quantity is what super().update()
\* left in the instance
ComputedAvailable_as_saved(row, payload) == ApplyPayload(row, payload).available_quantity

\* EventTicketTypeCreateUpdateSerializer.update:
\* computed_available = max(0, total_after - (total_before - avail_before))
ComputedAvailable(row, payload) ==
    Max(0, ApplyPayload(row, payload).total_quantity - sold_quantity(row))

\* update_ticket_type up to the end of its read: get_ticket_type takes no
\* lock and the call runs in no transaction
ut_get(p, k, payload) ==
    /\ pc[p] = "idle"
    /\ IF ~TypeExists(k)
       THEN Return(p, "update_ticket_type", "not_found")
       ELSE /\ pc' = [pc EXCEPT ![p] = "ut_save"]
            /\ frame' = [frame EXCEPT ![p] = [Frame0 EXCEPT
                   !.todo = <<k>>,
                   !.row = ApplyPayload(ticket_types[k], payload),
                   !.total_before = ticket_types[k].total_quantity,
                   !.avail_before = ticket_types[k].available_quantity,
                   !.computed = ComputedAvailable(ticket_types[k], payload)]]
            /\ response' = NoResponse
            /\ UNCHANGED locks
    /\ UNCHANGED <<db, clock>>

\* super().update(): instance.save() writes every column of the row from the
\* instance; the UPDATE waits while another transaction holds the row lock
ut_save(p) ==
    /\ pc[p] = "ut_save"
    /\ LET k == Head(frame[p].todo)
       IN /\ locks[k] = 0
          /\ ticket_types' = [ticket_types EXCEPT ![k] = frame[p].row]
          /\ IF frame[p].row.available_quantity # frame[p].computed
             THEN /\ pc' = [pc EXCEPT ![p] = "ut_clamp"]
                  /\ response' = NoResponse
                  /\ UNCHANGED <<frame, locks>>
             ELSE Return(p, "update_ticket_type", "ok")
    /\ UNCHANGED <<bookings, tickets, lodgings, clock>>

\* instance.available_quantity = computed_available;
\* instance.save(update_fields=["available_quantity"])
ut_clamp(p) ==
    /\ pc[p] = "ut_clamp"
    /\ LET k == Head(frame[p].todo)
       IN /\ locks[k] = 0
          /\ ticket_types' = [ticket_types EXCEPT ![k].available_quantity = frame[p].computed]
    /\ Return(p, "update_ticket_type", "ok")
    /\ UNCHANGED <<bookings, tickets, lodgings, clock>>

\* ------------------------------------------------------------- row locks
\* p waits for a row lock that q holds
WaitsFor(p, q) ==
    /\ pc[p] \in {"cb_lock", "cn_lock"}
    /\ q # p
    /\ TypeExists(Head(frame[p].todo))
    /\ locks[Head(frame[p].todo)] = q

\* the processes a chain of at most n waits leads to from p
RECURSIVE WaitChain(_, _)
WaitChain(p, n) ==
    IF n = 0 THEN {p}
    ELSE LET prev == WaitChain(p, n - 1)
         IN prev \cup {q \in Procs : \E r \in prev : WaitsFor(r, q)}

\* p waits, directly or not, for a transaction that waits for p
Deadlocked(p) ==
    \E q \in Procs : WaitsFor(p, q) /\ p \in WaitChain(q, NProc)

\* The store's deadlock detector aborts a transaction of a cycle of waits:
\* the call fails and its transaction is rolled back.
deadlock_abort(p) ==
    /\ Deadlocked(p)
    /\ Return(p, IF pc[p] = "cb_lock" THEN "create_booking" ELSE "cancel_booking", "deadlock")
    /\ UNCHANGED <<db, clock>>


\* ---------------------------------------------------------- lodging bookings
\* kerya/app/models/booking.py and kerya/app/services/bookings_service.py.
\*
\* Booking.save reads self.listing.price_per_night.  Listing in
\* models/listing.py defines no such field, and the only price_per_night of
\* the sources is HouseDetail.price_per_night.  PricePerNight is therefore
\* taken from the specification's "listing nightly price": each lodging
\* listing has one, a whole number, and Booking.save reads it.

\* BookingStatus
REQUESTED == "requested"
ACCEPTED == "accepted"
DECLINED == "declined"
CANCELLED_HOST == "cancelled_host"
CANCELLED_GUEST == "cancelled_guest"
CANCELLED_REQUEST == "cancelled_request"
CHECKED_IN == "checked_in"
CHECKED_OUT == "checked_out"
NO_SHOW == "no_show"

\* User rows: user 1 is a host and owns the lodging listings, user 2 is a
\* visitor (the one who books), user 3 an admin, user 4 another host and
\* user 5 another visitor.
Users == {1, 2, 3, 4, 5}
UserRole(u) ==
    CASE u \in {1, 4} -> "host"
      [] u \in {2, 5} -> "visitor"
      [] u = 3 -> "admin"
ListingOwner(l) == 1
PricePerNight(l) == IF l = 3 THEN 2 ELSE IF l = 4 THEN 3 ELSE 0

Days == 1..MaxDay

\* Booking.nights
nights(b) == b.end_date - b.start_date

host_is_guest(b) == b.guest

\* Booking.host
host(b) == ListingOwner(b.listing)

\* The statuses Booking.save counts as active
ActiveStatuses == {REQUESTED, ACCEPTED, CHECKED_IN}

\* The columns of a Booking row that the model writes
BookingFields ==
    {"listing", "guest", "start_date", "end_date", "price_total", "status",
     "is_active", "decision_at", "cancelled_at", "check_in_at", "check_out_at",
     "updated_at"}

\* Booking.save(update_fields): the instance with price_total and is_active
\* recomputed and updated_at stamped, of which only the named columns reach
\* the stored row.  update_fields = BookingFields is a save of every column.
SavedInstance(instance, now) ==
    [instance EXCEPT
        !.price_total = nights(instance) * PricePerNight(instance.listing),
        !.is_active = instance.status \in ActiveStatuses,
        !.updated_at = now]

save(instance, stored, update_fields, now) ==
    [f \in BookingFields |->
        IF f \in update_fields THEN SavedInstance(instance, now)[f] ELSE stored[f]]

overlapping_closed(listing, start_date, end_date) ==
    {i \in 1..Len(lodgings) :
        /\ lodgings[i].listing = listing
        /\ lodgings[i].status \in {REQUESTED, ACCEPTED}
        /\ lodgings[i].start_date <= end_date
        /\ lodgings[i].end_date >= start_date
        /\ lodgings[i].is_active}

\* BookingService._check_availability: the rows its query returns
overlapping(listing, start_date, end_date) ==
    {i \in 1..Len(lodgings) :
        /\ lodgings[i].listing = listing
        /\ lodgings[i].status \in {REQUESTED, ACCEPTED}
        /\ lodgings[i].start_date < end_date
        /\ lodgings[i].end_date > start_date
        /\ lodgings[i].is_active}

\* The instance Booking.objects.create builds in _create_hotel_booking and
\* _create_house_booking
InitialStatus_requested(kind) == REQUESTED
InitialStatus(kind) == IF kind = "hotel" THEN ACCEPTED ELSE REQUESTED

NewLodging(r, now) ==
    [listing |-> r.listing, guest |-> r.guest,
     start_date |-> r.start_date, end_date |-> r.end_date,
     price_total |-> 0, status |-> InitialStatus(r.kind), is_active |-> TRUE,
     decision_at |-> now, cancelled_at |-> 0, check_in_at |-> 0,
     check_out_at |-> 0, updated_at |-> now]

LodgeReturn(p, op, b, outcome) ==
    /\ response' = [proc |-> p, op |-> op, booking |-> b, outcome |-> outcome]
    /\ pc' = [pc EXCEPT ![p] = "idle"]
    /\ frame' = [frame EXCEPT ![p] = Frame0]

\* The response of a transition names the actor (request.user) as well.
ActorReturn(p, op, b, user, outcome) ==
    /\ response' = [proc |-> p, op |-> op, booking |-> b, user |-> user,
                    outcome |-> outcome]
    /\ pc' = [pc EXCEPT ![p] = "idle"]
    /\ frame' = [frame EXCEPT ![p] = Frame0]

\* create_hotel_booking / create_house_booking up to the availability check:
\* the payload is validated (a listing that exists and two dates) and the
\* listing must be of the expected type.
lc_begin(p, kind, listing, start_date, end_date, user) ==
    /\ pc[p] = "idle"
    /\ IF ListingType(listing) # kind
       THEN LodgeReturn(p, "create_" \o kind \o "_booking", 0, "invalid_listing_type")
       ELSE /\ pc' = [pc EXCEPT ![p] = "lc_check"]
            /\ frame' = [frame EXCEPT ![p] = [Frame0 EXCEPT
                   !.op = "create_" \o kind \o "_booking",
                   !.request = [kind |-> kind, listing |-> listing, guest |-> user,
                                start_date |-> start_date, end_date |-> end_date]]]
            /\ UNCHANGED response
    /\ UNCHANGED <<db, locks, clock>>

\* _check_availability: a plain SELECT
lc_check(p) ==
    /\ pc[p] = "lc_check"
    /\ LET r == frame[p].request
       IN IF overlapping(r.listing, r.start_date, r.end_date) # {}
          THEN LodgeReturn(p, frame[p].op, 0, "not_available")
          ELSE /\ pc' = [pc EXCEPT ![p] = "lc_insert"]
               /\ UNCHANGED <<frame, response>>
    /\ UNCHANGED <<db, locks, clock>>

\* Booking.objects.create and the commit
lc_insert(p) ==
    /\ pc[p] = "lc_insert"
    /\ clock < MaxClock
    /\ LET instance == NewLodging(frame[p].request, clock + 1)
       IN lodgings' = Append(lodgings,
              save(instance, instance, BookingFields, clock + 1))
    /\ clock' = clock + 1
    /\ LodgeReturn(p, frame[p].op, Len(lodgings) + 1, "ok")
    /\ UNCHANGED <<ticket_db, locks>>

\* BookingService._get_booking_as_guest_or_host: the permission checks
AccessDenied(role, b, user) ==
    \/ role = "guest" /\ b.guest # user
    \/ role = "host" /\ ~(host(b) = user \/ b.guest = user)

\* The role each service method passes to _get_booking_as_guest_or_host
ServiceRole(op, user) == IF op = "cancel_booking" THEN UserRole(user) ELSE "host"

\* Booking.ensure_active raises
ensure_active_never(b) == FALSE
ensure_active(b) == ~b.is_active

Raised(error) == [error |-> error, instance |-> <<>>, update_fields |-> {}]
Saving(instance, update_fields) ==
    [error |-> "", instance |-> instance, update_fields |-> update_fields]

\* Booking.cancel up to its save
cancel(b, user, by, now) ==
    IF ensure_active(b) THEN Raised("inactive")
    ELSE IF b.status = REQUESTED /\ by # "guest" THEN Raised("only_guest")
    ELSE IF b.status # REQUESTED /\ user # host(b) /\ user # b.guest
         THEN Raised("not_host_or_guest")
    ELSE Saving([b EXCEPT
                    !.status = IF b.status = REQUESTED THEN CANCELLED_REQUEST
                               ELSE IF user = host(b) THEN CANCELLED_HOST
                               ELSE CANCELLED_GUEST,
                    !.cancelled_at = now,
                    !.is_active = FALSE],
                {"status", "cancelled_at", "updated_at", "is_active"})

\* Booking.accept up to its save
accept(b, now) ==
    IF ensure_active(b) THEN Raised("inactive")
    ELSE Saving([b EXCEPT !.status = ACCEPTED, !.decision_at = now,
                          !.is_active = TRUE],
                {"status", "decision_at", "updated_at", "is_active"})

\* Booking.decline up to its save
decline(b, now) ==
    IF ensure_active(b) THEN Raised("inactive")
    ELSE Saving([b EXCEPT !.status = DECLINED, !.decision_at = now,
                          !.is_active = FALSE],
                {"status", "decision_at", "updated_at", "is_active"})

\* Booking.check_in up to its save
check_in(b, now) ==
    IF ensure_active(b) THEN Raised("inactive")
    ELSE Saving([b EXCEPT !.status = CHECKED_IN, !.check_in_at = now],
                {"status", "check_in_at", "updated_at"})

\* Booking.check_out up to its save
check_out(b, now) ==
    IF ensure_active(b) THEN Raised("inactive")
    ELSE Saving([b EXCEPT !.status = CHECKED_OUT, !.check_out_at = now],
                {"status", "check_out_at", "updated_at"})

\* Booking.no_show up to its save
no_show(b, now) ==
    IF ensure_active(b) THEN Raised("inactive")
    ELSE Saving([b EXCEPT !.status = NO_SHOW], {"status", "updated_at"})

\* The service methods that move a booking, and the model method of each
TransitionOps ==
    {"cancel_booking", "accept_house_booking", "decline_house_booking",
     "check_in_booking", "check_out_booking", "no_show_booking"}

Method(op, b, user, now) ==
    CASE op = "cancel_booking" -> cancel(b, user, UserRole(user), now)
      [] op = "accept_house_booking" -> accept(b, now)
      [] op = "decline_house_booking" -> decline(b, now)
      [] op = "check_in_booking" -> check_in(b, now)
      [] op = "check_out_booking" -> check_out(b, now)
      [] op = "no_show_booking" -> no_show(b, now)

\* A transition from its call to the point where the model method saves: the
\* row is loaded by a plain SELECT, the actor is checked, and the method
\* changes the instance in memory.
lt_get(p, op, b, user) ==
    /\ pc[p] = "idle"
    /\ IF b > Len(lodgings)
       THEN ActorReturn(p, op, b, user, "not_found") /\ UNCHANGED clock
       ELSE IF AccessDenied(ServiceRole(op, user), lodgings[b], user)
       THEN ActorReturn(p, op, b, user, "permission_denied") /\ UNCHANGED clock
       ELSE LET m == Method(op, lodgings[b], user, clock + 1)
            IN IF m.error # ""
               THEN ActorReturn(p, op, b, user, m.error) /\ UNCHANGED clock
               ELSE /\ clock < MaxClock
                    /\ clock' = clock + 1
                    /\ pc' = [pc EXCEPT ![p] = "lt_save"]
                    /\ frame' = [frame EXCEPT ![p] = [Frame0 EXCEPT
                           !.op = op, !.booking = b, !.user = user,
                           !.instance = m.instance,
                           !.update_fields = m.update_fields]]
                    /\ UNCHANGED response
    /\ UNCHANGED <<db, locks>>

\* The UPDATE of Booking.save(update_fields=...), committed at once
lt_save(p) ==
    /\ pc[p] = "lt_save"
    /\ LET f == frame[p]
       IN lodgings' = [lodgings EXCEPT ![f.booking] =
              save(f.instance, @, f.update_fields, clock)]
    /\ ActorReturn(p, frame[p].op, frame[p].booking, frame[p].user, "ok")
    /\ UNCHANGED <<ticket_db, locks, clock>>

\* BookingService.get_booking_by_id: the role passed to
\* _get_booking_as_guest_or_host is the role of the user
ViewError(b, user, include_inactive) ==
    IF AccessDenied(UserRole(user), b, user) THEN "permission_denied"
    ELSE IF ~include_inactive /\ ~b.is_active THEN "inactive"
    ELSE ""

\* get_booking_by_id as the retrieve endpoints call it: a read
get_booking_by_id(p, b, user, include_inactive) ==
    /\ pc[p] = "idle"
    /\ ActorReturn(p, "get_booking_by_id", b, user,
                   IF b > Len(lodgings) THEN "not_found"
                   ELSE IF ViewError(lodgings[b], user, include_inactive) # ""
                        THEN ViewError(lodgings[b], user, include_inactive)
                   ELSE "ok")
    /\ UNCHANGED <<db, locks, clock>>

\* HouseBookingViewSet.state_handlers
state_handlers ==
    [cancel |-> "cancel_booking", accepted |-> "accept_house_booking",
     declined |-> "decline_house_booking", checked_in |-> "check_in_booking",
     checked_out |-> "check_out_booking", no_show |-> "no_show_booking"]

\* what set_state answers before it calls a handler, "" when it calls one;
\* state is "" when the query has no state parameter
SetStateError(b, user, state) ==
    IF b > Len(lodgings) THEN "not_found"
    ELSE IF ViewError(lodgings[b], user, TRUE) # "" THEN ViewError(lodgings[b], user, TRUE)
    ELSE IF ~lodgings[b].is_active THEN "not_active"
    ELSE IF state = "" THEN "state_required"
    ELSE IF lodgings[b].status = REQUESTED /\ UserRole(user) # "guest" THEN "only_guest"
    ELSE IF state \notin DOMAIN state_handlers THEN "invalid_state"
    ELSE ""

\* set_state: the checks of the endpoint, then the handler of the state
set_state(p, b, user, state) ==
    IF SetStateError(b, user, state) # ""
    THEN /\ pc[p] = "idle"
         /\ response' = [proc |-> p, op |-> "set_state", booking |-> b, user |-> user,
                         state |-> state, outcome |-> SetStateError(b, user, state)]
         /\ UNCHANGED <<db, locks, clock, pc, frame>>
    ELSE lt_get(p, state_handlers[state], b, user)

\* ------------------------------------------------------------------ inputs
Quantities == 0..MaxQty

\* payloads of create_ticket_type that leave available_quantity out; every
\* ticket type is of event 1
TypeInputs ==
    {[event |-> 1, price |-> 2, total_quantity |-> MaxQty, available_quantity |-> NoValue,
      max_per_user |-> MaxQty, is_active |-> TRUE],
     [event |-> 1, price |-> 3, total_quantity |-> MaxQty, available_quantity |-> NoValue,
      max_per_user |-> 1, is_active |-> TRUE],
     [event |-> 1, price |-> 3, total_quantity |-> 1, available_quantity |-> NoValue,
      max_per_user |-> MaxQty, is_active |-> TRUE],
     [event |-> 1, price |-> 2, total_quantity |-> MaxQty, available_quantity |-> NoValue,
      max_per_user |-> MaxQty, is_active |-> FALSE]}

\* request lines: lists of up to MaxLines lines
LineInputs == [ticket_type : TypeIds, quantity : Quantities]
LineLists == UNION {[1..n -> LineInputs] : n \in 0..MaxLines}

\* payment_method / payment_reference of a request; the last reference has
\* the form of the line store
PaymentMethods == {<<>>, <<"c", "a", "r", "d">>}
PaymentReferences == {<<>>, <<"P", "A", "Y">>, LinesPrefix \o StrOfId(1) \o <<":">> \o StrOfInt(MaxQty)}

\* the codes scanned: both codes of every ticket there is, and a text that
\* is no ticket's code
Codes == {QrCode(i) : i \in 1..Len(tickets)} \cup {TicketNumber(i) : i \in 1..Len(tickets)}
             \cup {<<"qr", 0>>}

\* the create_booking calls that have not ended
CreatesInFlight == Cardinality({q \in Procs : pc[q] \in {"cb_lock", "cb_run"}})

\* ---------------------------------------------------------- specification
\* The booking lifecycle: ticket types created with their default
\* availability, then create_booking, confirm_booking and cancel_booking
\* calls of NProc concurrent processes.
Next ==
    \E p \in Procs :
        \/ \E in \in TypeInputs :
              create_ticket_type(p, in.event, in.price, in.total_quantity,
                                 in.available_quantity, in.max_per_user, in.is_active)
        \/ /\ Len(bookings) + CreatesInFlight < MaxBookings
           /\ \E event \in Listings, lines \in LineLists, payment_method \in {<<>>} :
                 \E order \in PriceOrders(SelectedTypes(lines)) :
                     cb_begin(p, event, lines, payment_method, order)
        \/ cb_lock(p)
        \/ cb_run(p)
        \/ \E b \in 1..MaxBookings, payment_method \in PaymentMethods,
              payment_reference \in PaymentReferences :
              cf_get(p, b, payment_method, payment_reference)
        \/ cf_write(p)
        \/ \E b \in 1..MaxBookings : cn_get(p, b)
        \/ cn_lock(p)
        \/ cn_write(p)

Spec == Init /\ [][Next]_vars


\* payloads of create_ticket_type for the one ticket type of the ledger
\* specifications: available_quantity given or left out
LedgerTypeInputs ==
    [event : {1}, price : {2}, total_quantity : 1..MaxQty,
     available_quantity : {NoValue, MaxQty},
     max_per_user : {MaxQty}, is_active : {TRUE}]



\* Ticket usage: one ticket type, bookings of one line, confirmed, scanned
\* at the entrance by either code and cancelled, by NProc concurrent
\* processes.
NextUse ==
    \E p \in Procs :
        \/ /\ Len(ticket_types) = 0
           /\ create_ticket_type(p, 1, 2, MaxQty, NoValue, MaxQty, TRUE)
        \/ /\ Len(bookings) + CreatesInFlight < MaxBookings
           /\ \E quantity \in 1..MaxQty :
                 cb_begin(p, 1, <<[ticket_type |-> 1, quantity |-> quantity]>>, <<>>,
                          [i \in 1..Len(ticket_types) |-> i])
        \/ cb_lock(p)
        \/ cb_run(p)
        \/ \E b \in 1..MaxBookings, payment_reference \in {<<>>, <<"P", "A", "Y">>} :
              cf_get(p, b, <<>>, payment_reference)
        \/ cf_write(p)
        \/ \E b \in 1..MaxBookings : cn_get(p, b)
        \/ cn_lock(p)
        \/ cn_write(p)
        \/ \E code \in Codes : use_ticket_by_qr(p, code)

SpecUse == Init /\ [][NextUse]_vars


\* Concurrent reservations of one unit each: some of the processes are in
\* create_booking, each past the serializer with the single line (type 1,
\* quantity 1), and the ticket type has just been created with
\* total_quantity = available_quantity = K.  pc[p] = "off" marks a process
\* that makes no call.
UnitRequest == <<[ticket_type |-> 1, quantity |-> 1]>>

InitReserve ==
    /\ \E in \in [event : {1}, price : {2, 3}, total_quantity : Quantities,
                  available_quantity : {NoValue}, max_per_user : 1..MaxQty, is_active : {TRUE}] :
          ticket_types = <<CreateRow(in.event, in.price, in.total_quantity,
                                     in.available_quantity, in.max_per_user, in.is_active)>>
    /\ bookings = <<>>
    /\ tickets = <<>>
    /\ lodgings = <<>>
    /\ locks = [k \in TypeIds |-> 0]
    /\ \E callers \in SUBSET Procs :
          /\ callers # {}
          /\ pc = [p \in Procs |-> IF p \in callers THEN "cb_lock" ELSE "off"]
          /\ frame = [p \in Procs |->
                 IF p \in callers
                 THEN [Frame0 EXCEPT !.event = 1, !.lines = UnitRequest,
                                     !.selected = <<1>>, !.todo = <<1>>]
                 ELSE Frame0]
    /\ response = NoResponse
    /\ clock = 0

NextReserve == \E p \in Procs : cb_lock(p) \/ cb_run(p)

SpecReserve == InitReserve /\ [][NextReserve]_vars

\* The lodging bookings alone, one call at a time: creations of house and
\* hotel bookings by the visitor and every transition by every user.  The
\* calls that overlap in time are in SpecLodgeRace.
DateRanges == {r \in Days \X Days : r[1] < r[2]}
LodgingKinds == {"hotel", "house"}
\* The listings' owner, the visitor who books, and the admin
LifecycleActors == {1, 2, 3}
LodgingListings == {l \in Listings : ListingType(l) \in LodgingKinds}

NextLodging ==
    \/ \E kind \in LodgingKinds, listing \in LodgingListings, r \in DateRanges :
          /\ \/ Len(lodgings) < MaxLodgings
             \/ overlapping(listing, r[1], r[2]) # {}
          /\ lc_begin(1, kind, listing, r[1], r[2], 2)
    \/ lc_check(1)
    \/ lc_insert(1)
    \/ \E op \in TransitionOps, b \in 1..MaxLodgings, user \in LifecycleActors :
          lt_get(1, op, b, user)
    \/ lt_save(1)

SpecLodging == Init /\ [][NextLodging]_vars


\* Creations that overlap in time: each process issues creations, and their
\* availability checks and inserts interleave.
LodgingsInFlight == Cardinality({q \in Procs : pc[q] \in {"lc_check", "lc_insert"}})

NextLodgeRace ==
    \E p \in Procs :
        \/ \E kind \in LodgingKinds, listing \in LodgingListings, r \in DateRanges,
              user \in {2, 3} :
              /\ Len(lodgings) + LodgingsInFlight < MaxLodgings
              /\ lc_begin(p, kind, listing, r[1], r[2], user)
        \/ lc_check(p)
        \/ lc_insert(p)

SpecLodgeRace == Init /\ [][NextLodgeRace]_vars

\* Transitions that overlap in time on one booking: a house or a hotel
\* booking is created, and then every process issues transitions on it, the
\* load of one falling between the load and the save of another.
NextTransitionRace ==
    \E p \in Procs :
        \/ \E listing \in LodgingListings, r \in DateRanges :
              /\ lodgings = <<>> /\ Quiescent
              /\ lc_begin(p, ListingType(listing), listing, r[1], r[2], 2)
        \/ lc_check(p)
        \/ lc_insert(p)
        \/ \E op \in TransitionOps, user \in LifecycleActors :
              lt_get(p, op, 1, user)
        \/ lt_save(p)

SpecTransitionRace == Init /\ [][NextTransitionRace]_vars

\* Who may do what: one booking is created, and then every user issues every
\* transition on it, one call at a time.
NextActors ==
    \/ \E listing \in LodgingListings, r \in DateRanges :
          /\ lodgings = <<>>
          /\ lc_begin(1, ListingType(listing), listing, r[1], r[2], 2)
    \/ lc_check(1)
    \/ lc_insert(1)
    \/ \E op \in TransitionOps, user \in Users : lt_get(1, op, 1, user)
    \/ lt_save(1)

SpecActors == Init /\ [][NextActors]_vars

\* Price edits between a reservation and its confirmation, one call at a
\* time: one ticket type, bookings of one line, update_ticket_type with a
\* payload that names the price, confirm_booking.
PricePayloads == [{"price"} -> 1..MaxPrice]

NextPrices ==
    \/ /\ Len(ticket_types) = 0
       /\ create_ticket_type(1, 1, 2, MaxQty, NoValue, MaxQty, TRUE)
    \/ /\ Len(bookings) < MaxBookings
       /\ \E quantity \in 1..MaxQty :
             cb_begin(1, 1, <<[ticket_type |-> 1, quantity |-> quantity]>>, <<>>,
                      [i \in 1..Len(ticket_types) |-> i])
    \/ cb_lock(1)
    \/ cb_run(1)
    \/ \E k \in 1..Len(ticket_types), payload \in PricePayloads : ut_get(1, k, payload)
    \/ ut_save(1)
    \/ \E b \in 1..MaxBookings : cf_get(1, b, <<>>, <<>>)
    \/ cf_write(1)

SpecPrices == Init /\ [][NextPrices]_vars

\* Calls that fail part-way: one ticket type, bookings of one line, confirmed
\* with a payment_reference that has the form of the line store and names the
\* ticket type and then a ticket type that does not exist, and cancelled.
NextRollback ==
    \E p \in Procs :
        \/ /\ Len(ticket_types) = 0
           /\ create_ticket_type(p, 1, 2, MaxQty, NoValue, MaxQty, TRUE)
        \/ /\ Len(bookings) + CreatesInFlight < MaxBookings
           /\ \E quantity \in 1..MaxQty :
                 cb_begin(p, 1, <<[ticket_type |-> 1, quantity |-> quantity]>>, <<>>,
                          [i \in 1..Len(ticket_types) |-> i])
        \/ cb_lock(p)
        \/ cb_run(p)
        \/ \E b \in 1..MaxBookings, payment_reference \in
                  {<<>>, LinesPrefix \o StrOfId(1) \o <<":", "1", ",">>
                             \o StrOfId(MaxTypes + 1) \o <<":", "1">>} :
              cf_get(p, b, <<>>, payment_reference)
        \/ cf_write(p)
        \/ \E b \in 1..MaxBookings : cn_get(p, b)
        \/ cn_lock(p)
        \/ cn_write(p)

SpecRollback == Init /\ [][NextRollback]_vars

\* Overlapping scans: one ticket type, one booking of one line, confirmed,
\* and its tickets scanned by either code by NProc concurrent processes.
\* booking.save of a confirm_booking waits for the booking row a scan has
\* locked through select_related.
NextScan ==
    \E p \in Procs :
        \/ /\ Len(ticket_types) = 0
           /\ create_ticket_type(p, 1, 2, MaxQty, NoValue, MaxQty, TRUE)
        \/ /\ Len(bookings) + CreatesInFlight < MaxBookings
           /\ \E quantity \in 1..MaxQty :
                 cb_begin(p, 1, <<[ticket_type |-> 1, quantity |-> quantity]>>, <<>>,
                          [i \in 1..Len(ticket_types) |-> i])
        \/ cb_lock(p)
        \/ cb_run(p)
        \/ \E b \in 1..MaxBookings : cf_get(p, b, <<>>, <<>>)
        \/ /\ \A q \in Procs : pc[q] # "use_save"
           /\ cf_write(p)
        \/ \E code \in Codes : use_begin(p, code)
        \/ use_get(p)
        \/ use_save(p)

SpecScan == Init /\ [][NextScan]_vars

\* An edit that overlaps the ledger: one ticket type, its price edited by
\* update_ticket_type while create_booking reserves and cancel_booking
\* releases, the cancellations one at a time.  A payload that names only
\* price leaves available_quantity equal to the computed value, so the
\* second save of the serializer is not reached.
NextLedgerRace ==
    \E p \in Procs :
        \/ /\ Len(ticket_types) = 0
           /\ create_ticket_type(p, 1, 2, MaxQty, NoValue, MaxQty, TRUE)
        \/ \E k \in 1..Len(ticket_types), payload \in PricePayloads :
              /\ \A q \in Procs : pc[q] \notin {"ut_save", "ut_clamp"}
              /\ ut_get(p, k, payload)
        \/ ut_save(p)
        \/ /\ Len(bookings) + CreatesInFlight < MaxBookings
           /\ \E quantity \in 1..MaxQty :
                 cb_begin(p, 1, <<[ticket_type |-> 1, quantity |-> quantity]>>, <<>>,
                          [i \in 1..Len(ticket_types) |-> i])
        \/ cb_lock(p)
        \/ cb_run(p)
        \/ /\ \A q \in Procs : pc[q] \notin {"cn_lock", "cn_write"}
           /\ \E b \in 1..MaxBookings : cn_get(p, b)
        \/ cn_lock(p)
        \/ cn_write(p)

SpecLedgerRace == Init /\ [][NextLedgerRace]_vars

\* Edits of one ticket type, calls one at a time: the type is created with
\* any payload, reserved, released, and edited by payloads that name
\* total_quantity, available_quantity or both.
NextEdit ==
    \/ /\ Len(ticket_types) = 0
       /\ \E in \in LedgerTypeInputs :
             create_ticket_type(1, in.event, in.price, in.total_quantity,
                                in.available_quantity, in.max_per_user, in.is_active)
    \/ /\ Len(bookings) < MaxBookings
       /\ \E quantity \in 1..MaxQty :
             cb_begin(1, 1, <<[ticket_type |-> 1, quantity |-> quantity]>>, <<>>,
                      [i \in 1..Len(ticket_types) |-> i])
    \/ cb_lock(1)
    \/ cb_run(1)
    \/ \E k \in 1..Len(ticket_types), payload \in [{"total_quantity"} -> Quantities]
                                        \cup [{"available_quantity"} -> Quantities]
                                        \cup [{"total_quantity", "available_quantity"} -> Quantities] :
          ut_get(1, k, payload)
    \/ ut_save(1)
    \/ ut_clamp(1)
    \/ \E b \in 1..MaxBookings : cn_get(1, b)
    \/ cn_lock(1)
    \/ cn_write(1)

SpecEdit == Init /\ [][NextEdit]_vars

\* Row locks: two ticket types, the first the cheaper; bookings of one unit
\* of each, the lines in either order, created and cancelled by NProc
\* concurrent processes; the store aborts a transaction of a cycle of
\* waits.
NextLocks ==
    \E p \in Procs :
        \/ /\ Len(ticket_types) < 2
           /\ create_ticket_type(p, 1, 2 + Len(ticket_types), MaxQty, NoValue, MaxQty, TRUE)
        \/ /\ Len(ticket_types) = 2
           /\ Len(bookings) + CreatesInFlight < MaxRepeat
           /\ \E lines \in {<<[ticket_type |-> 1, quantity |-> 1], [ticket_type |-> 2, quantity |-> 1]>>,
                           <<[ticket_type |-> 2, quantity |-> 1], [ticket_type |-> 1, quantity |-> 1]>>} :
                 \E order \in PriceOrders(SelectedTypes(lines)) :
                     cb_begin(p, 1, lines, <<>>, order)
        \/ cb_lock(p)
        \/ cb_run(p)
        \/ \E b \in 1..MaxRepeat : cn_get(p, b)
        \/ cn_lock(p)
        \/ cn_write(p)
        \/ deadlock_abort(p)

SpecLocks == Init /\ [][NextLocks]_vars

\* The endpoints of the house booking view set, calls one at a time: one
\* booking is created, read by get_booking_by_id and moved through
\* set_state, by every user and with every state parameter.
NextEndpoints ==
    \/ \E listing \in LodgingListings, r \in DateRanges :
          /\ lodgings = <<>>
          /\ lc_begin(1, ListingType(listing), listing, r[1], r[2], 2)
    \/ lc_check(1)
    \/ lc_insert(1)
    \/ \E user \in Users, include_inactive \in BOOLEAN :
          get_booking_by_id(1, 1, user, include_inactive)
    \/ \E user \in Users, state \in DOMAIN state_handlers \cup {"", "requested"} : set_state(1, 1, user, state)
    \/ lt_save(1)

SpecEndpoints == Init /\ [][NextEndpoints]_vars

\* Repeated requests of one user on one ticket type whose max_per_user is
\* 1: every create_booking is a call of the same user and every line names
\* that type, once or more than once; up to MaxRepeat bookings are created
\* by NProc concurrent processes and cancelled.
NextRepeat ==
    \E p \in Procs :
        \/ /\ Len(ticket_types) = 0
           /\ create_ticket_type(p, 1, 2, MaxQty, NoValue, 1, TRUE)
        \/ /\ Len(ticket_types) = 1
           /\ Len(bookings) + CreatesInFlight < MaxRepeat
           /\ \E lines \in {l \in LineLists :
                               /\ Len(l) >= 1
                               /\ \A i \in 1..Len(l) :
                                     l[i].ticket_type = 1 /\ l[i].quantity >= 1} :
                 \E order \in PriceOrders(SelectedTypes(lines)) :
                     cb_begin(p, 1, lines, <<>>, order)
        \/ cb_lock(p)
        \/ cb_run(p)
        \/ \E b \in 1..MaxRepeat : cn_get(p, b)
        \/ cn_lock(p)
        \/ cn_write(p)

SpecRepeat == Init /\ [][NextRepeat]_vars

\* Creation with any two dates: BookingCreateSerializer takes start_date and
\* end_date as two date fields, whatever their order.
NextDates ==
    \/ \E kind \in LodgingKinds, listing \in LodgingListings, r \in Days \X Days :
          /\ Len(lodgings) < MaxLodgings
          /\ lc_begin(1, kind, listing, r[1], r[2], 2)
    \/ lc_check(1)
    \/ lc_insert(1)

SpecDates == Init /\ [][NextDates]_vars

\* ================================================================== claims

\* the quantity a list of request lines holds of ticket type k
RECURSIVE QuantityOf(_, _)
QuantityOf(lines, k) ==
    IF Len(lines) = 0 THEN 0
    ELSE (IF Head(lines).ticket_type = k THEN Head(lines).quantity ELSE 0)
         + QuantityOf(Tail(lines), k)

\* the quantity of type k reserved by the bookings 1..n that are not cancelled
RECURSIVE ReservedUpTo(_, _)
ReservedUpTo(n, k) ==
    IF n = 0 THEN 0
    ELSE (IF bookings[n].status # CANCELLED THEN QuantityOf(bookings[n].lines, k) ELSE 0)
         + ReservedUpTo(n - 1, k)

Reserved(k) == ReservedUpTo(Len(bookings), k)

\* C1: at every quiescent point, for every ticket type, available_quantity
\* plus the quantities reserved for it by the PENDING and CONFIRMED bookings
\* equals total_quantity.
C1_LedgerBalance ==
    Quiescent =>
        \A k \in 1..Len(ticket_types) :
            ticket_types[k].available_quantity + Reserved(k) = ticket_types[k].total_quantity

\* C2: at every quiescent point, for every ticket type,
\* 0 <= available_quantity <= total_quantity.
C2_AvailableInRange ==
    Quiescent =>
        \A k \in 1..Len(ticket_types) :
            /\ 0 <= ticket_types[k].available_quantity
            /\ ticket_types[k].available_quantity <= ticket_types[k].total_quantity


\* the calls of SpecReserve and whether all of them have ended
Callers == {p \in Procs : pc[p] # "off"}
AllReturned == \A p \in Callers : pc[p] = "idle"

\* a create_booking call has just failed with the given error
CreateFailedWith(outcome) ==
    response.op = "create_booking" /\ response.outcome = outcome

CreateFailed == response.op = "create_booking" /\ response.outcome # "ok"

\* what N unit reservations against K available units must leave
ReserveCounts ==
    AllReturned =>
        /\ Len(bookings) = Min(Cardinality(Callers), ticket_types[1].total_quantity)
        /\ ticket_types[1].available_quantity
               = Max(0, ticket_types[1].total_quantity - Cardinality(Callers))

\* C3 as stated: N concurrent unit reservations against K available units
\* end with min(N, K) bookings and max(0, K - N) available units, and every
\* call that fails fails at the quantity check (quantity > available).
C3_FailInsufficient ==
    /\ ReserveCounts
    /\ CreateFailed => CreateFailedWith("exceeds_available")

\* C3 as amended: the same counts, and every call that fails fails at the
\* is_available check (the type is sold out), which comes first in the loop.
C3_FailNotAvailable ==
    /\ ReserveCounts
    /\ CreateFailed => CreateFailedWith("not_available")

\* two calls against one unit have ended, one of them failing
C3_Witness ==
    /\ AllReturned
    /\ Cardinality(Callers) = 2
    /\ ticket_types[1].total_quantity = 1
    /\ Len(bookings) = 1
    /\ CreateFailed


\* a create_booking call of p is at its commit step, and ends in it
CreateEnds(p) == pc[p] = "cb_run" /\ pc'[p] = "idle"

\* the request line names a ticket type that exists and fails one of the
\* four checks against the row as it stands: not of the event, not
\* is_available, quantity > available_quantity, quantity > max_per_user
LineFailsCheck(line, event) ==
    /\ line.ticket_type \in 1..Len(ticket_types)
    /\ LET tt == ticket_types[line.ticket_type]
       IN \/ tt.event # event
          \/ ~(tt.is_active /\ tt.available_quantity > 0)
          \/ line.quantity > tt.available_quantity
          \/ line.quantity > tt.max_per_user

\* C4: create_booking is all-or-nothing: when any line of the request fails
\* a check, the call fails, no booking is persisted and every
\* available_quantity is what it was.
C4_AllOrNothing ==
    [][\A p \in Procs :
          (/\ CreateEnds(p)
           /\ \E i \in 1..Len(frame[p].lines) : LineFailsCheck(frame[p].lines[i], frame[p].event))
          => /\ response'.op = "create_booking"
             /\ response'.outcome # "ok"
             /\ bookings' = bookings
             /\ ticket_types' = ticket_types]_vars

\* a request for more than the one unit left has failed at the quantity
\* check and the unit is still there
C4_Witness ==
    /\ CreateFailedWith("exceeds_available")
    /\ bookings = <<>>
    /\ \E k \in 1..Len(ticket_types) :
          ticket_types[k].available_quantity = 1 /\ ticket_types[k].total_quantity = 1

\* the sum of f over the lines
SumLines(lines, f(_)) ==
    LET RECURSIVE Sum(_)
        Sum(i) == IF i = 0 THEN 0 ELSE f(lines[i]) + Sum(i - 1)
    IN Sum(Len(lines))

\* the line record of a booking row says what the request said
LineRecordIs(booking, lines) ==
    LET record == ParseLines(Payload(booking.payment_reference))
    IN /\ StartsWith(booking.payment_reference, LinesPrefix)
       /\ ParseOk(Payload(booking.payment_reference))
       /\ Len(record) = Len(lines)
       /\ \A i \in 1..Len(lines) :
             /\ IdOfStr(record[i].ticket_type) = lines[i].ticket_type
             /\ record[i].quantity = lines[i].quantity

\* C5: a successful create_booking persists one booking, PENDING, with
\* total_tickets the sum of the quantities and total_amount the sum of
\* price x quantity, takes exactly the line quantity from each ticket type's
\* available_quantity, and stores a line record equal to the request.
C5_CreateEffect ==
    [][\A p \in Procs :
          (CreateEnds(p) /\ response'.outcome = "ok")
          => LET lines == frame[p].lines
                 new == bookings'[Len(bookings) + 1]
             IN /\ Len(bookings') = Len(bookings) + 1
                /\ SubSeq(bookings', 1, Len(bookings)) = bookings
                /\ new.status = PENDING
                /\ new.event = frame[p].event
                /\ new.total_tickets = SumLines(lines, LAMBDA l : l.quantity)
                /\ new.total_amount =
                       SumLines(lines, LAMBDA l : ticket_types[l.ticket_type].price * l.quantity)
                /\ LineRecordIs(new, lines)
                /\ Len(ticket_types') = Len(ticket_types)
                /\ \A k \in 1..Len(ticket_types) :
                      /\ ticket_types'[k].available_quantity
                             = ticket_types[k].available_quantity - QuantityOf(lines, k)
                      /\ [ticket_types'[k] EXCEPT !.available_quantity = 0]
                             = [ticket_types[k] EXCEPT !.available_quantity = 0]]_vars

\* a booking of two lines, one of two units, has just been created
C5_Witness ==
    /\ response.op = "create_booking" /\ response.outcome = "ok"
    /\ Len(bookings) = 1
    /\ bookings[1].status = PENDING
    /\ Len(bookings[1].lines) = 2
    /\ bookings[1].total_tickets = 3


\* the tickets of booking b, and those of ticket type k among them
TicketsOf(b) == {i \in 1..Len(tickets) : tickets[i].booking = b}
TicketsOfType(b, k) == {i \in TicketsOf(b) : tickets[i].ticket_type = k}

\* C6: in every reachable state, a CONFIRMED booking has exactly
\* total_tickets tickets, line.quantity of them for each reserved type.
C6_TicketsMatch ==
    \A b \in 1..Len(bookings) :
        bookings[b].status = CONFIRMED
        => /\ Cardinality(TicketsOf(b)) = bookings[b].total_tickets
           /\ \A k \in TypeIds :
                 Cardinality(TicketsOfType(b, k)) = QuantityOf(bookings[b].lines, k)

\* process p, idle, makes the first step of a confirm_booking call on b
ConfirmCall(p, b) ==
    /\ pc[p] = "idle"
    /\ \/ response' = [proc |-> p, op |-> "confirm_booking", booking |-> b,
                        outcome |-> response'.outcome]
       \/ pc'[p] = "cf_write" /\ frame'[p].booking = b

\* C7: confirm_booking on a booking that is already CONFIRMED, with any
\* payment arguments, returns the booking and changes no ticket, no booking
\* field and no inventory counter.
C7_ConfirmIdempotent ==
    [][\A p \in Procs : \A b \in 1..Len(bookings) :
          (bookings[b].status = CONFIRMED /\ ConfirmCall(p, b))
          => /\ pc'[p] = "idle"
             /\ response'.outcome = "returned_confirmed"
             /\ UNCHANGED db]_vars

\* a second confirm_booking has just returned a CONFIRMED booking that has
\* its tickets
C7_Witness ==
    /\ response.op = "confirm_booking" /\ response.outcome = "returned_confirmed"
    /\ bookings[response.booking].status = CONFIRMED
    /\ TicketsOf(response.booking) # {}

\* process p, idle, makes the first step of a cancel_booking call on b
CancelCall(p, b) ==
    /\ pc[p] = "idle"
    /\ \/ response' = [proc |-> p, op |-> "cancel_booking", booking |-> b,
                        outcome |-> response'.outcome]
       \/ pc'[p] \in {"cn_lock", "cn_write"} /\ frame'[p].booking = b

\* C8: cancel_booking on a booking that is already CANCELLED is a no-op: it
\* returns the booking, releases no inventory, changes no ticket and leaves
\* status and cancelled_at as they are.
C8_CancelIdempotent ==
    [][\A p \in Procs : \A b \in 1..Len(bookings) :
          (bookings[b].status = CANCELLED /\ CancelCall(p, b))
          => /\ pc'[p] = "idle"
             /\ response'.outcome = "returned_cancelled"
             /\ UNCHANGED db]_vars

\* a second cancel_booking has just returned a CANCELLED booking whose units
\* are back
C8_Witness ==
    /\ response.op = "cancel_booking" /\ response.outcome = "returned_cancelled"
    /\ bookings[response.booking].status = CANCELLED
    /\ bookings[response.booking].cancelled_at > 0
    /\ \A k \in 1..Len(ticket_types) :
          ticket_types[k].available_quantity = ticket_types[k].total_quantity

\* C9: the commit of cancel_booking on a PENDING or CONFIRMED booking sets
\* it CANCELLED, gives back to every ticket type exactly the quantity the
\* booking had reserved of it, and leaves every ticket of the booking
\* CANCELLED.
C9_CancelReleases ==
    [][\A p \in Procs :
          (/\ pc[p] = "cn_write" /\ pc'[p] = "idle"
           /\ bookings[frame[p].booking].status \in {PENDING, CONFIRMED})
          => LET b == frame[p].booking
             IN /\ bookings'[b].status = CANCELLED
                /\ \A k \in 1..Len(ticket_types) :
                      ticket_types'[k].available_quantity
                         = ticket_types[k].available_quantity + QuantityOf(bookings[b].lines, k)
                /\ \A i \in 1..Len(tickets') :
                      tickets'[i].booking = b => tickets'[i].status = TICKET_CANCELLED]_vars

\* C10 as stated: once a booking is CONFIRMED its status never changes.
C10_ConfirmedTerminal ==
    [][\A b \in 1..Len(bookings) :
          bookings[b].status = CONFIRMED => bookings'[b].status = CONFIRMED]_vars

\* C10 as amended: a CONFIRMED booking stays CONFIRMED, except that the
\* commit of a cancel_booking call moves it to CANCELLED; it never returns
\* to PENDING and no confirm_booking call changes its status.
C10_ConfirmedUntilCancelled ==
    [][\A b \in 1..Len(bookings) :
          bookings[b].status = CONFIRMED
          => \/ bookings'[b].status = CONFIRMED
             \/ /\ bookings'[b].status = CANCELLED
                /\ response' = [proc |-> response'.proc, op |-> "cancel_booking",
                                booking |-> b, outcome |-> "ok"]]_vars

\* a cancel_booking call has just moved a confirmed booking to CANCELLED
C10_Witness ==
    /\ response.op = "cancel_booking" /\ response.outcome = "ok"
    /\ bookings[response.booking].status = CANCELLED
    /\ bookings[response.booking].confirmed_at > 0
    /\ bookings[response.booking].cancelled_at > bookings[response.booking].confirmed_at

\* C11: CANCELLED is terminal under every interleaving: once the
\* cancellation of a booking has committed, its status never changes again
\* (in particular a concurrent confirm_booking does not end it CONFIRMED),
\* and no ticket is created for it.
C11_CancelledTerminal ==
    [][\A b \in 1..Len(bookings) :
          bookings[b].status = CANCELLED
          => /\ bookings'[b].status = CANCELLED
             /\ \A i \in 1..Len(tickets') : i > Len(tickets) => tickets'[i].booking # b]_vars

\* C12: used is a terminal ticket status: once a ticket is used, no later
\* use_ticket_by_qr, confirm_booking or cancel_booking changes its status.
C12_UsedTerminal ==
    [][\A i \in 1..Len(tickets) :
          tickets[i].status = USED => tickets'[i].status = USED]_vars

\* the outcome use_ticket_by_qr is to have on the scanned code: NotFound
\* when no ticket carries it, AlreadyUsed for a used ticket, TicketNotUsable
\* for a cancelled ticket or one whose booking is not CONFIRMED
Classified(code) ==
    IF \A i \in 1..Len(tickets) : QrCode(i) # code /\ TicketNumber(i) # code THEN "not_found"
    ELSE LET t == tickets[CHOOSE i \in 1..Len(tickets) : QrCode(i) = code \/ TicketNumber(i) = code]
         IN IF t.status = USED THEN "already_used"
            ELSE IF t.status = TICKET_CANCELLED \/ bookings[t.booking].status # CONFIRMED
                 THEN "not_usable"
            ELSE "ok"

\* C13: use_ticket_by_qr ends as classified, changes nothing when it fails,
\* and otherwise marks the scanned ticket, and no other, used with used_at
\* set.
C13_UseOutcome ==
    [][response'.op = "use_ticket_by_qr" /\ response' # response
       => /\ response'.outcome = Classified(response'.code)
          /\ response'.outcome # "ok" => UNCHANGED db
          /\ response'.outcome = "ok"
             => /\ UNCHANGED <<ticket_types, bookings>>
                /\ Len(tickets') = Len(tickets)
                /\ \A i \in 1..Len(tickets) :
                      IF QrCode(i) = response'.code \/ TicketNumber(i) = response'.code
                      THEN tickets'[i].status = USED /\ tickets'[i].used_at > 0
                      ELSE tickets'[i] = tickets[i]]_vars


\* C14: after every persist of a lodging booking (creation, accept, decline,
\* cancel, check_in, check_out, no_show) the stored is_active flag equals
\* (stored status is REQUESTED, ACCEPTED or CHECKED_IN).  The store changes
\* only by persists, so this is an invariant of the stored rows.
C14_ActiveMatchesStatus ==
    \A b \in 1..Len(lodgings) :
        lodgings[b].is_active
            <=> lodgings[b].status \in {"requested", "accepted", "checked_in"}

\* C15: DECLINED, CANCELLED_HOST, CANCELLED_GUEST, CANCELLED_REQUEST,
\* CHECKED_OUT and NO_SHOW are terminal: no step changes the stored status of
\* a booking whose stored status is one of them.
C15_TerminalStatuses ==
    [][\A b \in 1..Len(lodgings) :
          lodgings[b].status \in {"declined", "cancelled_host", "cancelled_guest",
                                  "cancelled_request", "checked_out", "no_show"}
              => lodgings'[b].status = lodgings[b].status]_vars

\* C16: a transition (accept, decline, cancel, check_in, check_out, no_show)
\* invoked on a booking whose stored is_active is false fails with the
\* inactive-booking error and leaves the stored rows as they were; it never
\* reaches its save.  The model method is invoked once the service has let
\* the actor through, so a call the access check rejects is not one of them;
\* the flag is the one of the row as the call loads it.
C16_InactiveRejected ==
    [][/\ \A p \in Procs :
             pc[p] = "idle" /\ pc'[p] = "lt_save"
                 => lodgings[frame'[p].booking].is_active
       /\ (/\ response' # response
           /\ response'.proc \in Procs
           /\ pc[response'.proc] = "idle"
           /\ response'.op \in {"cancel_booking", "accept_house_booking",
                                 "decline_house_booking", "check_in_booking",
                                 "check_out_booking", "no_show_booking"}
           /\ response'.booking \in 1..Len(lodgings)
           /\ ~lodgings[response'.booking].is_active
           /\ response'.outcome # "permission_denied")
          => /\ response'.outcome = "inactive"
             /\ lodgings' = lodgings]_vars

\* decline() has moved a REQUESTED booking to DECLINED, and a later accept()
\* has failed with the inactive-booking error.
C16_Witness ==
    /\ response.op = "accept_house_booking"
    /\ response.outcome = "inactive"
    /\ response.booking \in 1..Len(lodgings)
    /\ lodgings[response.booking].status = "declined"
    /\ ~lodgings[response.booking].is_active
    /\ lodgings[response.booking].cancelled_at = 0

Conflicts(listing, start_date, end_date) ==
    \E b \in 1..Len(lodgings) :
        /\ lodgings[b].listing = listing
        /\ lodgings[b].is_active
        /\ lodgings[b].status \in {"requested", "accepted"}
        /\ lodgings[b].start_date < end_date
        /\ lodgings[b].end_date > start_date

C18_AvailabilityConflict ==
    [][\A p \in Procs :
          /\ pc[p] = "lc_check" /\ pc'[p] # "lc_check"
                => LET r == frame[p].request
                   IN IF Conflicts(r.listing, r.start_date, r.end_date)
                      THEN /\ pc'[p] = "idle"
                           /\ response'.proc = p
                           /\ response'.outcome = "not_available"
                           /\ lodgings' = lodgings
                      ELSE pc'[p] = "lc_insert" /\ response' = response
          /\ pc[p] = "lc_insert" /\ pc'[p] # "lc_insert"
                => /\ response'.proc = p /\ response'.outcome = "ok"
                   /\ Len(lodgings') = Len(lodgings) + 1
          /\ pc[p] \notin {"lc_check", "lc_insert"}
                => ~(/\ response' # response
                     /\ response'.proc = p
                     /\ response'.outcome \in {"not_available", "ok"}
                     /\ response'.op \in {"create_hotel_booking",
                                           "create_house_booking"})]_vars

\* Two bookings of one listing whose ranges touch are stored, and a third
\* request overlapping them has been refused.
C18_Witness ==
    /\ response.outcome = "not_available"
    /\ Len(lodgings) = 2
    /\ lodgings[1].listing = lodgings[2].listing
    /\ lodgings[1].end_date = lodgings[2].start_date
    /\ lodgings[1].status \in {"requested", "accepted"} /\ lodgings[1].is_active
    /\ lodgings[2].status \in {"requested", "accepted"} /\ lodgings[2].is_active
    /\ lodgings[2].updated_at = lodgings[1].updated_at + 1

\* C19: lodging is never double-booked: no two stored bookings of one
\* listing, both with status REQUESTED, ACCEPTED or CHECKED_IN, have
\* overlapping half-open date ranges.
C19_NoDoubleBooking ==
    \A a \in 1..Len(lodgings), b \in 1..Len(lodgings) :
        (/\ a # b
         /\ lodgings[a].listing = lodgings[b].listing
         /\ lodgings[a].status \in {"requested", "accepted", "checked_in"}
         /\ lodgings[b].status \in {"requested", "accepted", "checked_in"})
        => ~(/\ lodgings[a].start_date < lodgings[b].end_date
             /\ lodgings[b].start_date < lodgings[a].end_date)

\* C20: of two creations for one listing with overlapping ranges that run
\* at the same time, one succeeds and the other fails with the availability
\* conflict: a creation that got past its check before the other one was
\* stored does not itself store a booking.
C20_OneCreationWins ==
    [][\A p \in Procs :
          (/\ pc[p] = "lc_insert" /\ pc'[p] = "idle"
           /\ Conflicts(frame[p].request.listing, frame[p].request.start_date,
                        frame[p].request.end_date))
          => /\ response'.outcome = "not_available"
             /\ lodgings' = lodgings]_vars

\* C21: transitions that run at the same time on one booking lose no update:
\* a stored cancelled status is never followed by ACCEPTED or CHECKED_IN, and
\* the stored status, is_active and cancelled_at are those of one transition:
\* cancelled_at is set exactly on a booking stored as cancelled and inactive.
C21_NoLostUpdate ==
    [][\A b \in 1..Len(lodgings) :
          /\ lodgings[b].status \in {"cancelled_host", "cancelled_guest",
                                      "cancelled_request"}
                => lodgings'[b].status \notin {"accepted", "checked_in"}
          /\ lodgings'[b].cancelled_at # 0
                <=> /\ lodgings'[b].status \in {"cancelled_host", "cancelled_guest",
                                                 "cancelled_request"}
                    /\ ~lodgings'[b].is_active]_vars

\* A transition call on booking b has ended in this step; its actor is
\* response'.user and the row it ran on is lodgings[b].
TransitionEnds(op) ==
    /\ response' # response
    /\ response'.op = op
    /\ response'.booking \in 1..Len(lodgings)

\* C22: on a REQUESTED booking, cancel_booking by the booking's guest
\* succeeds and stores CANCELLED_REQUEST with cancelled_at set and is_active
\* false; by anyone else it fails and leaves the booking as it was.
C22_CancelRequested ==
    [][(/\ TransitionEnds("cancel_booking")
        /\ lodgings[response'.booking].status = "requested")
       => LET b == response'.booking
          IN IF response'.user = lodgings[b].guest
             THEN /\ response'.outcome = "ok"
                  /\ lodgings'[b].status = "cancelled_request"
                  /\ lodgings'[b].cancelled_at # 0
                  /\ ~lodgings'[b].is_active
             ELSE /\ response'.outcome # "ok"
                  /\ lodgings' = lodgings]_vars

\* C23: on an active booking whose status is not REQUESTED, cancel_booking by
\* the owner of the listing stores CANCELLED_HOST, by the booking's guest
\* CANCELLED_GUEST, each with cancelled_at set and is_active false; by any
\* other actor it fails for lack of permission and leaves the booking as it
\* was.
C23_CancelByParty ==
    [][(/\ TransitionEnds("cancel_booking")
        /\ lodgings[response'.booking].status # "requested"
        /\ lodgings[response'.booking].is_active)
       => LET b == response'.booking
              party == response'.user \in {ListingOwner(lodgings[b].listing),
                                           lodgings[b].guest}
          IN IF party
             THEN /\ response'.outcome = "ok"
                  /\ lodgings'[b].status
                        = IF response'.user = ListingOwner(lodgings[b].listing)
                          THEN "cancelled_host" ELSE "cancelled_guest"
                  /\ lodgings'[b].cancelled_at # 0
                  /\ ~lodgings'[b].is_active
             ELSE /\ response'.outcome \in {"permission_denied", "not_host_or_guest"}
                  /\ lodgings' = lodgings]_vars

\* The owner of the listing has cancelled a hotel booking, which was ACCEPTED.
C23_Witness ==
    /\ response.op = "cancel_booking"
    /\ response.user = 1
    /\ response.outcome = "ok"
    /\ Len(lodgings) = 1
    /\ ListingType(lodgings[1].listing) = "hotel"
    /\ lodgings[1].check_in_at = 0
    /\ lodgings[1].status = "cancelled_host"
    /\ lodgings[1].cancelled_at # 0
    /\ ~lodgings[1].is_active

\* The service methods the specification reserves to the host
HostOps ==
    {"accept_house_booking", "decline_house_booking", "check_in_booking",
     "check_out_booking", "no_show_booking"}

\* C24: accept, decline, check_in, check_out and no_show are host-only: a call
\* by a user who is not the owner of the booking's listing and is not an
\* admin, the booking's own guest included, fails for lack of permission and
\* leaves the booking as it was.
C24_HostOnly ==
    [][\A op \in HostOps :
          (/\ TransitionEnds(op)
           /\ response'.user # ListingOwner(lodgings[response'.booking].listing)
           /\ UserRole(response'.user) # "admin")
          => /\ response'.outcome = "permission_denied"
             /\ lodgings' = lodgings]_vars

\* C25: an admin who is neither the booking's guest nor the listing's owner is
\* never refused for lack of ownership on cancel, accept, decline, check_in,
\* check_out or no_show of an active booking.
C25_AdminBypass ==
    [][\A op \in HostOps \cup {"cancel_booking"} :
          (/\ TransitionEnds(op)
           /\ UserRole(response'.user) = "admin"
           /\ response'.user # ListingOwner(lodgings[response'.booking].listing)
           /\ response'.user # lodgings[response'.booking].guest
           /\ lodgings[response'.booking].is_active)
          => response'.outcome \notin {"permission_denied", "not_host_or_guest"}]_vars

\* The prices of the tickets of booking b in the rows ts: a ticket row has no
\* price of its own, its price is the price of its ticket type, read in types.
RECURSIVE PriceSum(_, _, _)
PriceSum(ts, types, b) ==
    IF Len(ts) = 0 THEN 0
    ELSE (IF Head(ts).booking = b THEN types[Head(ts).ticket_type].price ELSE 0)
         + PriceSum(Tail(ts), types, b)

\* C26: when a booking becomes CONFIRMED, the prices of its tickets, each the
\* price of its ticket type at that moment (the moment of issuance), add up
\* to the booking's total_amount, whatever price edits came before.
C26_TicketPricesSum ==
    [][\A b \in 1..Len(bookings) :
          (bookings[b].status # "confirmed" /\ bookings'[b].status = "confirmed")
          => PriceSum(tickets', ticket_types', b) = bookings'[b].total_amount]_vars

\* C27: a confirm_booking or cancel_booking call that fails commits nothing:
\* the ticket rows, the booking rows and every available_quantity are after
\* the call what they were before it, also when the call fails after it has
\* created tickets or restored the quantity of some ticket type.
C27_NoPartialCommit ==
    [][(/\ response' # response
        /\ response'.op \in {"confirm_booking", "cancel_booking"}
        /\ response'.outcome \in {"not_found", "cancelled", "no_lines",
                                   "value_error", "does_not_exist"})
       => UNCHANGED <<ticket_types, bookings, tickets>>]_vars

\* A cancel_booking has failed on a ticket type that does not exist, after it
\* had restored the quantity of the type named before it.
C27_Witness ==
    /\ response.op = "cancel_booking"
    /\ response.outcome = "does_not_exist"
    /\ response.booking \in 1..Len(bookings)
    /\ bookings[response.booking].status = "confirmed"
    /\ LET lines == ParseLines(Payload(bookings[response.booking].payment_reference))
       IN /\ Len(lines) = 2
          /\ TypeExists(IdOfStr(lines[1].ticket_type))
          /\ ~TypeExists(IdOfStr(lines[2].ticket_type))

\* C28: a lodging transition changes the status only from its source: a
\* booking becomes ACCEPTED or DECLINED only from REQUESTED, CHECKED_IN only
\* from ACCEPTED, and CHECKED_OUT only from CHECKED_IN.
C28_SourceStatus ==
    [][\A b \in 1..Len(lodgings) :
          lodgings'[b].status # lodgings[b].status
          => /\ lodgings'[b].status \in {"accepted", "declined"}
                   => lodgings[b].status = "requested"
             /\ lodgings'[b].status = "checked_in" => lodgings[b].status = "accepted"
             /\ lodgings'[b].status = "checked_out" => lodgings[b].status = "checked_in"]_vars

\* the ticket a use_ticket_by_qr call that ends in this step has scanned
Scanned == CHOOSE i \in Matching(response'.code) : TRUE

\* C29: of the use_ticket_by_qr calls that overlap on one valid ticket of a
\* confirmed booking, whether they scan its qr_code or its ticket_number,
\* the first to end succeeds and stamps status=used and used_at, and every
\* other fails and leaves the ticket and its used_at as they are: a call
\* succeeds only on a ticket that is still valid.
C29_OneScanWins ==
    [][(/\ response' # response
        /\ response'.op = "use_ticket_by_qr"
        /\ response'.outcome # "not_found")
       => IF tickets[Scanned].status = VALID /\ bookings[tickets[Scanned].booking].status = CONFIRMED
          THEN /\ response'.outcome = "ok"
               /\ tickets'[Scanned].status = USED
               /\ tickets'[Scanned].used_at > 0
          ELSE /\ response'.outcome # "ok"
               /\ tickets' = tickets]_vars

\* A call that began before the ticket was marked used, scanning the
\* ticket_number, has failed after the call that scanned the qr_code
\* succeeded.
C29_Witness ==
    /\ response.op = "use_ticket_by_qr"
    /\ response.outcome = "not_usable"
    /\ \E i \in 1..Len(tickets) :
          /\ response.code = TicketNumber(i)
          /\ tickets[i].status = USED
          /\ bookings[tickets[i].booking].status = CONFIRMED
          /\ response.began < tickets[i].used_at

\* C30: the quantities a booking reserved go back to the ticket types once,
\* however many cancel_booking calls overlap on it: the cancel_booking that
\* commits on a PENDING or CONFIRMED booking adds the booking's quantity to
\* available_quantity, and one that commits on a booking already cancelled
\* adds nothing.  (Bookings here have one line, on ticket type 1.)
C30_ReleasedOnce ==
    [][(/\ response' # response
        /\ response'.op = "cancel_booking"
        /\ response'.outcome = "ok")
       => ticket_types'[1].available_quantity
            = ticket_types[1].available_quantity
              + (IF bookings[response'.booking].status = CANCELLED THEN 0
                 ELSE bookings[response'.booking].total_tickets)]_vars

\* the tickets of ticket type k that admit or have admitted their holder
Admitting(k) == {i \in 1..Len(tickets) : tickets[i].ticket_type = k
                                          /\ tickets[i].status \in {VALID, USED}}

\* C31: when no call is in flight, every ticket type has at most
\* sold_quantity = total_quantity - available_quantity tickets that are
\* valid or used.
C31_AdmissionHeld ==
    Quiescent
    => \A k \in 1..Len(ticket_types) :
          Cardinality(Admitting(k))
              <= ticket_types[k].total_quantity - ticket_types[k].available_quantity

\* C32: an update_ticket_type that overlaps a create_booking or a
\* cancel_booking on its ticket type does not overwrite their change: once
\* all calls have ended, the sold count total_quantity - available_quantity
\* is the quantity the bookings that are not cancelled reserved.
C32_EditKeepsLedger ==
    Quiescent
    => \A k \in 1..Len(ticket_types) : sold_quantity(ticket_types[k]) = Reserved(k)

\* C33: an update_ticket_type with no concurrent writer takes total_before
\* and avail_before from the stored row and leaves available_quantity =
\* max(0, total_after - sold_before), sold_before = total_before -
\* avail_before, whatever available_quantity its payload names; the sold
\* count is then unchanged whenever total_after >= sold_before.
C33_Reclamp ==
    [][\A p \in Procs :
          /\ (pc[p] = "idle" /\ pc'[p] = "ut_save")
             => LET k == Head(frame'[p].todo)
                IN /\ frame'[p].total_before = ticket_types[k].total_quantity
                   /\ frame'[p].avail_before = ticket_types[k].available_quantity
          /\ (/\ response' # response
              /\ response'.op = "update_ticket_type"
              /\ response'.outcome = "ok"
              /\ response'.proc = p)
             => LET k == Head(frame[p].todo)
                    sold_before == frame[p].total_before - frame[p].avail_before
                    after == ticket_types'[k]
                IN /\ after.available_quantity
                         = (IF after.total_quantity - sold_before > 0
                            THEN after.total_quantity - sold_before ELSE 0)
                   /\ after.total_quantity >= sold_before
                         => sold_quantity(after) = sold_before]_vars

\* An update has lowered total_quantity below the two units a booking
\* holds, and available_quantity is clamped at 0.
C33_Witness ==
    /\ response.op = "update_ticket_type" /\ response.outcome = "ok"
    /\ Len(ticket_types) = 1
    /\ ticket_types[1].total_quantity = 1
    /\ ticket_types[1].available_quantity = 0
    /\ Reserved(1) = 2

\* C34: create_booking and cancel_booking take the row locks of ticket
\* types in one order, so that no call ever waits for a lock held by a call
\* that waits, directly or not, for a lock of its own: there is no cycle of
\* waits.
C34_NoDeadlock == \A p \in Procs : ~Deadlocked(p)

\* C35: a set_state call by the owner of the listing on a house booking
\* that is REQUESTED, with state=accepted or state=declined, is not answered
\* by the endpoint itself: the answers set_state gives before it calls a
\* handler never go to such a call, which therefore reaches accept or
\* decline.
C35_ApprovalReachable ==
    [][(/\ response' # response
        /\ response'.op = "set_state"
        /\ response'.booking \in 1..Len(lodgings))
       => LET b == lodgings[response'.booking]
          IN ~(/\ b.status = REQUESTED
               /\ ListingType(b.listing) = "house"
               /\ response'.user = host(b)
               /\ response'.state \in {ACCEPTED, DECLINED})]_vars

\* the users get_booking_by_id is to serve: the guest of the booking, the
\* owner of its listing, an admin
MayView(b, user) == user = b.guest \/ user = host(b) \/ UserRole(user) = "admin"

\* C36: get_booking_by_id returns the booking only to its guest, to the owner
\* of its listing or to an admin, and fails with a permission error for
\* every other user.
C36_ViewPermission ==
    [][(/\ response' # response
        /\ response'.op = "get_booking_by_id"
        /\ response'.booking \in 1..Len(lodgings))
       => LET b == lodgings[response'.booking]
          IN /\ response'.outcome = "ok" => MayView(b, response'.user)
             /\ ~MayView(b, response'.user) => response'.outcome = "permission_denied"]_vars

\* C37: the quantity of a ticket type that the PENDING and CONFIRMED
\* bookings of one user reserve is at most the max_per_user of the type.
\* (Every booking of SpecRepeat is the same user's.)
C37_HeldWithinLimit ==
    \A k \in 1..Len(ticket_types) : Reserved(k) <= ticket_types[k].max_per_user

\* the request names one ticket type in two lines
Duplicated(lines) ==
    \E i, j \in 1..Len(lines) : i # j /\ lines[i].ticket_type = lines[j].ticket_type

\* C38: a create_booking whose lines name a ticket type more than once fails
\* as a whole: no booking is stored and no available_quantity changes.
C38_DuplicateLinesRejected ==
    [][\A p \in Procs :
          (CreateEnds(p) /\ Duplicated(frame[p].lines))
          => /\ response'.op = "create_booking"
             /\ response'.outcome # "ok"
             /\ bookings' = bookings
             /\ ticket_types' = ticket_types]_vars

\* A request of SpecRepeat, whose lines all name the one ticket type
\* there is, has failed with "ticket types not found": it named the type
\* twice; nothing is booked and nothing reserved.
C38_Witness ==
    /\ CreateFailedWith("not_found")
    /\ Len(ticket_types) = 1
    /\ bookings = <<>>
    /\ ticket_types[1].available_quantity = ticket_types[1].total_quantity

\* C39: every stored lodging booking has start_date before end_date, hence
\* at least one night and a price_total that is not negative.
C39_DatesOrdered ==
    \A b \in 1..Len(lodgings) :
        /\ lodgings[b].start_date < lodgings[b].end_date
        /\ nights(lodgings[b]) >= 1
        /\ lodgings[b].price_total >= 0

====
